---- MODULE Spec2Model ----
(***************************************************************************)
(* Model of the bulk dispatch of solana-send-tx-msg: the class             *)
(* SolanaMessageSender (sendMessage, sendMemoOnly, sendBulkMessages,       *)
(* sendBulkMemoOnly, sendMessagesFromFile), FileUtils.readRecipientsFile   *)
(* and WalletUtils.toPublicKey.                                            *)
(*                                                                         *)
(* One behaviour is one call of a bulk entry point on one sender instance. *)
(* Text values are sequences of one-character strings, so that base58      *)
(* encoding, trimming and splitting are computed and not assumed.  The     *)
(* empty text is << >>.  A JavaScript undefined of a text field is the     *)
(* string Undefined, of a number field the number UndefinedNum.            *)
(***************************************************************************)
EXTENDS Integers, Sequences, FiniteSets, TLC

\* ------------------------------------------------------------------ bounds
MaxItems == 3          \* longest work list explored
MaxDelay == 5          \* the positive delayBetweenTx explored (milliseconds)
KeyBytes == 1          \* width of a public key in bytes (32 in the library)
MaxConcItems == 2      \* longest work list of each of two concurrent runs
MaxWalletWrites == 1   \* writes of the wallet file during one countdown

\* ------------------------------------------------------- JavaScript values
Undefined == "undefined"
UndefinedNum == -1
NullKey == -2          \* a null entry of recipientAddresses
NonString == "<null>"  \* null where a message is expected
UnknownError == "Unknown error"

\* !x for the values continueOnError takes here: undefined and false are falsy
Truthy(b) == b = "true"
\* truthiness of a number: undefined and 0 are falsy
TruthyNum(n) == n # UndefinedNum /\ n # 0

\* error instanceof Error ? error.message : "Unknown error"
ErrorText(thrown) == IF thrown.isError THEN thrown.message ELSE UnknownError

\* the values a rejected promise or a throw statement can carry
ThrownValues ==
    { [isError |-> TRUE, message |-> "Transaction simulation failed"],
      [isError |-> FALSE, message |-> "" ] }

\* ----------------------------------------------------------------- base58
Alphabet ==
    << "1","2","3","4","5","6","7","8","9",
       "A","B","C","D","E","F","G","H","J","K","L","M","N","P","Q","R","S",
       "T","U","V","W","X","Y","Z",
       "a","b","c","d","e","f","g","h","i","j","k","m","n","o","p","q","r",
       "s","t","u","v","w","x","y","z" >>

RECURSIVE ByteLen(_)
ByteLen(n) == IF n = 0 THEN 0 ELSE 1 + ByteLen(n \div 256)

RECURSIVE Digits58(_)
Digits58(n) ==
    IF n = 0 THEN << >>
    ELSE Append(Digits58(n \div 58), Alphabet[(n % 58) + 1])

Ones(z) == [j \in 1..z |-> "1"]

\* PublicKey.toBase58(): every leading zero byte is a "1", then the digits
toBase58(k) == Ones(KeyBytes - ByteLen(k)) \o Digits58(k)

InAlphabet(c) == \E j \in 1..Len(Alphabet) : Alphabet[j] = c
CharIndex(c) == CHOOSE j \in 1..Len(Alphabet) : Alphabet[j] = c

RECURSIVE LeadingOnes(_)
LeadingOnes(s) ==
    IF s = << >> \/ Head(s) # "1" THEN 0 ELSE 1 + LeadingOnes(Tail(s))

RECURSIVE Value58(_)
Value58(s) ==
    IF s = << >> THEN 0
    ELSE Value58(SubSeq(s, 1, Len(s) - 1)) * 58 + (CharIndex(s[Len(s)]) - 1)

\* new PublicKey(address) succeeds: base58 text decoding to KeyBytes bytes
isValidPublicKey(s) ==
    /\ \A j \in 1..Len(s) : InAlphabet(s[j])
    /\ LeadingOnes(s) + ByteLen(Value58(s)) = KeyBytes

\* WalletUtils.toPublicKey on a valid address
toPublicKey(s) == Value58(s)

\* ------------------------------------------------------------ explorer url
getExplorerUrl(signature, network) ==
    << "https://explorer.solana.com/tx/", signature,
       IF network = "mainnet-beta" THEN "" ELSE "?cluster=" >>
    \o (IF network = "mainnet-beta" THEN << >> ELSE << network >>)

\* an undefined explorerUrl / validation error (texts are sequences)
UndefinedText == << "undefined" >>
NoSignature == << >>

\* ------------------------------------------------------ recipients file
\* what String.prototype.trim strips: the WhiteSpace and LineTerminator
\* code points of ECMAScript.  Those without an escape in a string of the
\* model are written by their code point, one element of a text each.
Whitespace ==
    { " ", "\t", "\r", "\n", "\f",
      "U+000B", "U+00A0", "U+FEFF", "U+2028", "U+2029",
      "U+1680", "U+2000", "U+2001", "U+2002", "U+2003", "U+2004", "U+2005",
      "U+2006", "U+2007", "U+2008", "U+2009", "U+200A", "U+202F", "U+205F",
      "U+3000" }

RECURSIVE Split(_)
\* fileContent.split("\n")
Split(s) ==
    IF \A j \in 1..Len(s) : s[j] # "\n" THEN << s >>
    ELSE LET p == CHOOSE j \in 1..Len(s) :
                      s[j] = "\n" /\ \A h \in 1..(j - 1) : s[h] # "\n"
         IN  << SubSeq(s, 1, p - 1) >> \o Split(SubSeq(s, p + 1, Len(s)))

RECURSIVE TrimStart(_)
TrimStart(s) ==
    IF s # << >> /\ Head(s) \in Whitespace THEN TrimStart(Tail(s)) ELSE s

RECURSIVE TrimEnd(_)
TrimEnd(s) ==
    IF s # << >> /\ s[Len(s)] \in Whitespace
    THEN TrimEnd(SubSeq(s, 1, Len(s) - 1)) ELSE s

\* line.trim()
Trim(s) == TrimEnd(TrimStart(s))

\* a filter that keeps comment lines
KeepLine_Comments(line) == Len(line) > 0

\* line.length > 0 && !line.startsWith("#")
KeepLine(line) == Len(line) > 0 /\ line[1] # "#"

ParseLines(fileContent) ==
    LET trimmed == [j \in 1..Len(Split(fileContent)) |->
                        Trim(Split(fileContent)[j])]
    IN  SelectSeq(trimmed, KeepLine)

\* error instanceof Error ? error.message
\*                        : "Unknown error reading recipients file"
ReadErrorText(thrown) ==
    IF thrown.isError THEN thrown.message
    ELSE "Unknown error reading recipients file"

\* FileUtils.checkRecipientsFile: access(filePath, R_OK) on the file as it
\* is when the file system performs the check
checkRecipientsFile(f) == f.accessible

\* an early return that leaves the error out
InvalidValidation_NoError(error) ==
    [ isValid |-> FALSE, addresses |-> << >>, validAddresses |-> << >>,
      invalidAddresses |-> << >>, error |-> UndefinedText ]

InvalidValidation(error) ==
    [ isValid |-> FALSE, addresses |-> << >>, validAddresses |-> << >>,
      invalidAddresses |-> << >>, error |-> error ]

\* a validation that holds as soon as one address is valid
readRecipientsFile_ValidIfAnyValid(fileExists, f) ==
    IF ~fileExists
    THEN InvalidValidation(<< "does not exist or is not readable" >>)
    ELSE IF ~f.readOk
    THEN InvalidValidation(<< ReadErrorText(f.readError) >>)
    ELSE LET lines == ParseLines(f.content)
             valid == SelectSeq(lines, isValidPublicKey)
             validAddresses == [j \in 1..Len(valid) |-> toPublicKey(valid[j])]
             invalidAddresses ==
                 SelectSeq(lines, LAMBDA a : ~isValidPublicKey(a))
         IN  IF Len(lines) = 0
             THEN InvalidValidation(<< "No valid addresses found" >>)
             ELSE [ isValid |-> Len(validAddresses) > 0,
                    addresses |-> lines,
                    validAddresses |-> validAddresses,
                    invalidAddresses |-> invalidAddresses,
                    error |-> UndefinedText ]

\* FileUtils.readRecipientsFile: fileExists is what the awaited
\* checkRecipientsFile gave, f what the awaited readFile read
readRecipientsFile(fileExists, f) ==
    IF ~fileExists
    THEN InvalidValidation(<< "does not exist or is not readable" >>)
    ELSE IF ~f.readOk
    THEN InvalidValidation(<< ReadErrorText(f.readError) >>)
    ELSE LET lines == ParseLines(f.content)
             valid == SelectSeq(lines, isValidPublicKey)
             validAddresses == [j \in 1..Len(valid) |-> toPublicKey(valid[j])]
             invalidAddresses ==
                 SelectSeq(lines, LAMBDA a : ~isValidPublicKey(a))
         IN  IF Len(lines) = 0
             THEN InvalidValidation(<< "No valid addresses found" >>)
             ELSE [ isValid |-> Len(invalidAddresses) = 0
                                  /\ Len(validAddresses) > 0,
                    addresses |-> lines,
                    validAddresses |-> validAddresses,
                    invalidAddresses |-> invalidAddresses,
                    error |-> IF Len(invalidAddresses) > 0
                              THEN << "Invalid addresses found: " >>
                                       \o invalidAddresses
                              ELSE UndefinedText ]

\* FileUtils.validateRecipients throws
validateRecipientsThrows(validation) ==
    ~validation.isValid \/ Len(validation.validAddresses) = 0

\* ------------------------------------------------------------------ inputs
Keys == { 0, 58 }
Messages == { "gm", "hello" }
Networks == { "devnet", "mainnet-beta" }
Delays == { UndefinedNum, 0, MaxDelay }
Flags == { Undefined, "false", "true" }

SeqsUpTo(S, n) == UNION { [1..m -> S] : m \in 0..n }

RecipientLists == SeqsUpTo(Keys \cup { NullKey }, MaxItems)
MessageLists == SeqsUpTo(Messages \cup { NonString }, MaxItems)

Addr0 == toBase58(0)
Addr1 == toBase58(58)
BadAddr == << "0", "x" >>

FileContents ==
    { << >>,
      << "#", "c", "\n", " ", "\n" >>,
      Addr0,
      Addr0 \o << "\n" >> \o Addr1,
      << " " >> \o Addr1 \o << " ", "\r", "\n", "#", "c", "\n", "\n" >>
          \o Addr0 \o << "\n" >>,
      Addr0 \o << "\n" >> \o Addr0,
      Addr0 \o << "\n" >> \o BadAddr,
      BadAddr }

NoThrown == [isError |-> FALSE, message |-> ""]

\* a path that is a directory: access succeeds, readFile and writeFile
\* reject with EISDIR
Directory ==
    [accessible |-> TRUE, readOk |-> FALSE,
     readError |-> [isError |-> TRUE,
                    message |-> "EISDIR: illegal operation on a directory, read"],
     content |-> << >>]

Files ==
    { [accessible |-> FALSE, readOk |-> FALSE, readError |-> NoThrown,
       content |-> << >>],
      Directory }
    \cup { [accessible |-> TRUE, readOk |-> FALSE, readError |-> t,
            content |-> << >>] : t \in ThrownValues }
    \cup { [accessible |-> TRUE, readOk |-> TRUE, readError |-> NoThrown,
            content |-> c] : c \in FileContents }

NoFile == [accessible |-> FALSE, readOk |-> FALSE, readError |-> NoThrown,
           content |-> << >>]

\* BulkMessageConfig / the argument of sendBulkMemoOnly / FileRecipientConfig.
\* recipientsNull: recipientAddresses is null; messagesGiven: messages present
BulkConfigs ==
    { [message |-> "gm", recipientsNull |-> rn, recipientAddresses |-> r,
       messagesGiven |-> FALSE, messages |-> << >>,
       delayBetweenTx |-> d, continueOnError |-> c, recipientsFile |-> NoFile]
      : rn \in { FALSE }, r \in RecipientLists, d \in Delays, c \in Flags }
    \cup
    { [message |-> "gm", recipientsNull |-> TRUE, recipientAddresses |-> << >>,
       messagesGiven |-> FALSE, messages |-> << >>,
       delayBetweenTx |-> d, continueOnError |-> c, recipientsFile |-> NoFile]
      : d \in Delays, c \in Flags }

MemoConfigs ==
    { [message |-> "gm", recipientsNull |-> FALSE, recipientAddresses |-> << >>,
       messagesGiven |-> TRUE, messages |-> ms,
       delayBetweenTx |-> d, continueOnError |-> c, recipientsFile |-> NoFile]
      : ms \in MessageLists, d \in Delays, c \in Flags }
    \cup
    { [message |-> m, recipientsNull |-> FALSE, recipientAddresses |-> << >>,
       messagesGiven |-> FALSE, messages |-> << >>,
       delayBetweenTx |-> d, continueOnError |-> c, recipientsFile |-> NoFile]
      : m \in { "gm", NonString }, d \in Delays, c \in Flags }

FileConfigs ==
    { [message |-> "gm", recipientsNull |-> FALSE, recipientAddresses |-> << >>,
       messagesGiven |-> FALSE, messages |-> << >>,
       delayBetweenTx |-> d, continueOnError |-> c, recipientsFile |-> f]
      : f \in Files, d \in Delays, c \in Flags }

\* what the ledger answers to one submitted transaction, or a throw out of
\* the awaited single-operation call itself
SendOutcomes ==
    { [kind |-> "confirmed", thrown |-> NoThrown] }
    \cup { [kind |-> k, thrown |-> t] :
              k \in { "rejected", "throws" }, t \in ThrownValues }

\* ------------------------------------------------------------------- state
VARIABLES
    entry,        \* the entry point called: "bulk", "memo" or "file"
    network,      \* this.config.network of the sender instance
    config,       \* the config argument of the running bulk call
    pc,           \* position of the call
    i,            \* loop index
    results,      \* results: BulkTransactionResult[]
    totalSent,
    totalFailed,
    ret,          \* << >> until the call returns, then << BulkMessageResult >>
    log,          \* the observable events of the run, in order
    io            \* the file operations in flight: the position of a call
                  \* of createSampleRecipientsFile, what access found and
                  \* what readFile read, until they are delivered

vars == << entry, network, config, pc, i, results, totalSent, totalFailed,
           ret, log, io >>

\* no file operation has been started
NoIo == [sample |-> "idle", access |-> << >>, read |-> << >>]

Event(ev, idx, to, memo, ms, kind) ==
    [ev |-> ev, idx |-> idx, to |-> to, memo |-> memo, ms |-> ms, kind |-> kind]

\* ----------------------------------------------------- single operations
\* the signature the ledger gives a confirmed transaction
SignatureOf(to, memo) == << "sig", to, memo >>

\* sendMessage: the TransactionResult for one recipient
sendMessage(to, memo, out) ==
    IF out.kind = "confirmed"
    THEN [ signature |-> SignatureOf(to, memo), success |-> TRUE,
           error |-> Undefined,
           explorerUrl |-> getExplorerUrl(SignatureOf(to, memo), network) ]
    ELSE [ signature |-> NoSignature, success |-> FALSE,
           error |-> ErrorText(out.thrown), explorerUrl |-> UndefinedText ]

\* sendMemoOnly: the TransactionResult for one memo without recipient
sendMemoOnly(memo, out) ==
    IF out.kind = "confirmed"
    THEN [ signature |-> SignatureOf(NullKey, memo), success |-> TRUE,
           error |-> Undefined,
           explorerUrl |-> getExplorerUrl(SignatureOf(NullKey, memo), network) ]
    ELSE [ signature |-> NoSignature, success |-> FALSE,
           error |-> ErrorText(out.thrown), explorerUrl |-> UndefinedText ]

ZeroResult ==
    [ totalSent |-> 0, totalFailed |-> 0, results |-> << >>,
      overallSuccess |-> FALSE ]

\* files of a direct readRecipientsFile call: an indented comment, an
\* address followed by a comment, tabs and a carriage return
ReadFiles ==
    Files \cup
    { [accessible |-> TRUE, readOk |-> TRUE, readError |-> NoThrown,
       content |-> c] :
        c \in { << " ", "#", "c", "\n" >> \o Addr0,
                Addr0 \o << " ", "#" >>,
                << "\t" >> \o Addr0 \o << "\r" >>,
                << "\n", "\n" >> \o BadAddr \o << "\n", "#" >> \o Addr1,
                << "\f" >> \o Addr0,
                << "\f", "\n" >>,
                << "U+FEFF", "#", "c", "\n" >> \o Addr0 \o << "U+00A0" >> } }

\* the filePath argument of a direct readRecipientsFile call
ReadConfigs ==
    { [message |-> "gm", recipientsNull |-> FALSE, recipientAddresses |-> << >>,
       messagesGiven |-> FALSE, messages |-> << >>,
       delayBetweenTx |-> UndefinedNum, continueOnError |-> Undefined,
       recipientsFile |-> f]
      : f \in ReadFiles }

\* getConfig: PRIVATE_KEY and WALLET_PATH of the environment, absent, empty
\* or set, and whether the private key decodes and the wallet file (the one
\* at walletPath, or ~/.config/solana/id.json) loads
EnvValues == { Undefined, "", "set" }

RunConfigs ==
    { [message |-> "gm", recipientsNull |-> FALSE, recipientAddresses |-> << >>,
       messagesGiven |-> FALSE, messages |-> << >>,
       delayBetweenTx |-> UndefinedNum, continueOnError |-> Undefined,
       recipientsFile |-> NoFile,
       privateKey |-> pk, walletPath |-> wp, privateKeyDecodes |-> pd,
       walletFileLoads |-> wl]
      : pk \in EnvValues, wp \in EnvValues, pd \in BOOLEAN, wl \in BOOLEAN }

\* the command line of the single-message mode: --message with --memo-only
\* or with --recipient (an address, something else, the empty text, or
\* absent)
CliConfigs ==
    { [message |-> "gm", recipientsNull |-> FALSE, recipientAddresses |-> << >>,
       messagesGiven |-> FALSE, messages |-> << >>,
       delayBetweenTx |-> UndefinedNum, continueOnError |-> Undefined,
       recipientsFile |-> NoFile,
       privateKey |-> pk, walletPath |-> wp, privateKeyDecodes |-> pd,
       walletFileLoads |-> wl, memoOnly |-> mo, recipient |-> r]
      : pk \in EnvValues, wp \in EnvValues, pd \in BOOLEAN, wl \in BOOLEAN,
        mo \in BOOLEAN, r \in { UndefinedText, << >>, Addr0, BadAddr } }

\* the command line of the bulk-recipient mode: --bulk with --recipients
\* a,b,c (every entry trimmed, possibly empty or not an address), --message,
\* --delay and --continue-on-error, under an environment whose keypair
\* loads or does not
CliRecipientLists == SeqsUpTo({ Addr0, Addr1, BadAddr, << >> }, MaxItems)

CliBulkConfigs ==
    { [message |-> m, recipientsNull |-> FALSE, recipientAddresses |-> << >>,
       messagesGiven |-> FALSE, messages |-> << >>,
       delayBetweenTx |-> d, continueOnError |-> c,
       recipientsFile |-> NoFile,
       privateKey |-> pk, walletPath |-> Undefined,
       privateKeyDecodes |-> TRUE, walletFileLoads |-> wl,
       recipients |-> r]
      : m \in { Undefined, "gm" }, d \in Delays, c \in { Undefined, "true" },
        pk \in { Undefined, "set" }, wl \in BOOLEAN,
        r \in CliRecipientLists }

\* MessageConfig of a direct sendMessage call: one recipient, possibly
\* missing, and a message, possibly not a string
SingleConfigs ==
    { [message |-> m, recipientsNull |-> FALSE, recipientAddresses |-> << k >>,
       messagesGiven |-> FALSE, messages |-> << >>,
       delayBetweenTx |-> UndefinedNum, continueOnError |-> Undefined,
       recipientsFile |-> NoFile]
      : m \in Messages \cup { NonString }, k \in Keys \cup { NullKey } }

\* the argument of a direct sendMemoOnly call
SingleMemoConfigs ==
    { [message |-> m, recipientsNull |-> FALSE, recipientAddresses |-> << >>,
       messagesGiven |-> FALSE, messages |-> << >>,
       delayBetweenTx |-> UndefinedNum, continueOnError |-> Undefined,
       recipientsFile |-> NoFile]
      : m \in Messages \cup { NonString } }

Init ==
    /\ entry \in { "bulk", "memo", "file", "single", "singleMemo", "read",
                   "example", "cli", "cliBulk" }
    /\ network \in Networks
    /\ config \in CASE entry = "bulk" -> BulkConfigs
                    [] entry = "memo" -> MemoConfigs
                    [] entry = "single" -> SingleConfigs
                    [] entry = "singleMemo" -> SingleMemoConfigs
                    [] entry = "read" -> ReadConfigs
                    [] entry = "example" -> RunConfigs
                    [] entry = "cli" -> CliConfigs
                    [] entry = "cliBulk" -> CliBulkConfigs
                    [] OTHER -> FileConfigs
    /\ pc = "call"
    /\ i = 0
    /\ results = << >>
    /\ totalSent = 0
    /\ totalFailed = 0
    /\ ret = << >>
    /\ log = << >>
    /\ io = NoIo

\* --------------------------------------------------------- shared pieces
\* an exception leaving sendBulkMessages: to the caller, or into the catch
\* of sendMessagesFromFile, which returns the zero result
Raise ==
    IF entry = "file"
    THEN ret' = << ZeroResult >> /\ pc' = "done"
    ELSE ret' = ret /\ pc' = "thrown"

DelayEvent == Event("delay", i, NullKey, "", config.delayBetweenTx, "")
ElapsedEvent == Event("elapsed", i, NullKey, "", config.delayBetweenTx, "")

\* ------------------------------------------------------ sendBulkMessages
\* the success record without its explorer url
BulkRecordSuccess_NoUrl(recipientAddress, result) ==
    [ recipientAddress |-> recipientAddress, signature |-> result.signature,
      success |-> TRUE, error |-> Undefined,
      explorerUrl |-> UndefinedText ]

BulkRecordSuccess(recipientAddress, result) ==
    [ recipientAddress |-> recipientAddress, signature |-> result.signature,
      success |-> TRUE, error |-> Undefined,
      explorerUrl |-> result.explorerUrl ]

\* the failure record with the marker of the memo loop as its address
BulkRecordFailure_MemoLabel(recipientAddress, result) ==
    [ recipientAddress |-> << "memo-only" >>, signature |-> NoSignature,
      success |-> FALSE, error |-> result.error,
      explorerUrl |-> UndefinedText ]

BulkRecordFailure(recipientAddress, result) ==
    [ recipientAddress |-> recipientAddress, signature |-> NoSignature,
      success |-> FALSE, error |-> result.error,
      explorerUrl |-> UndefinedText ]

BulkRecordCaught(recipientAddress, thrown) ==
    [ recipientAddress |-> recipientAddress, signature |-> NoSignature,
      success |-> FALSE, error |-> ErrorText(thrown),
      explorerUrl |-> UndefinedText ]

\* totalSent++ and results.push of the success branch
BulkOnSuccess(recipientAddress, result) ==
    /\ totalSent' = totalSent + 1
    /\ totalFailed' = totalFailed
    /\ results' = Append(results, BulkRecordSuccess(recipientAddress, result))

\* the reported-failure branch counting the item as sent
BulkOnFailure_CountsSent(recipientAddress, result) ==
    /\ totalSent' = totalSent + 1
    /\ totalFailed' = totalFailed
    /\ results' = Append(results, BulkRecordFailure(recipientAddress, result))

\* the reported-failure branch writing over the latest record
BulkOnFailure_Overwrite(recipientAddress, result) ==
    /\ totalFailed' = totalFailed + 1
    /\ totalSent' = totalSent
    /\ results' =
          IF results = << >>
          THEN << BulkRecordFailure(recipientAddress, result) >>
          ELSE [results EXCEPT ![Len(results)] =
                   BulkRecordFailure(recipientAddress, result)]

\* totalFailed++ and results.push of the reported-failure branch
BulkOnFailure(recipientAddress, result) ==
    /\ totalFailed' = totalFailed + 1
    /\ totalSent' = totalSent
    /\ results' = Append(results, BulkRecordFailure(recipientAddress, result))

\* the catch block without its totalFailed++
BulkOnCaught_NoCount(recipientAddress, thrown) ==
    /\ totalFailed' = totalFailed
    /\ totalSent' = totalSent
    /\ results' = Append(results, BulkRecordCaught(recipientAddress, thrown))

\* totalFailed++ and results.push of the catch block
BulkOnCaught(recipientAddress, thrown) ==
    /\ totalFailed' = totalFailed + 1
    /\ totalSent' = totalSent
    /\ results' = Append(results, BulkRecordCaught(recipientAddress, thrown))

\* continueOnError taken as true when it is absent
BulkStopsOnError_DefaultContinue == config.continueOnError = "false"

\* continueOnError ignored: every failure stops the run
BulkStopsOnError_Always == TRUE

\* !config.continueOnError
BulkStopsOnError == ~Truthy(config.continueOnError)

\* config.delayBetweenTx && i < config.recipientAddresses.length - 1
BulkDelays ==
    TruthyNum(config.delayBetweenTx) /\ i < Len(config.recipientAddresses) - 1

\* a break placed after the delay block
BulkBreak_AfterDelay(settled) ==
    /\ pc' = "summary"
    /\ i' = i
    /\ log' = IF BulkDelays
              THEN log \o << settled, DelayEvent, ElapsedEvent >>
              ELSE Append(log, settled)

\* break
BulkBreak(settled) ==
    /\ pc' = "summary"
    /\ i' = i
    /\ log' = Append(log, settled)

\* the delay started but not awaited
BulkPace_NoAwait(settled) ==
    IF BulkDelays
    THEN /\ pc' = "loop"
         /\ i' = i + 1
         /\ log' = log \o << settled, DelayEvent >>
    ELSE /\ pc' = "loop"
         /\ i' = i + 1
         /\ log' = Append(log, settled)

\* the end of the try block: the optional delay, then the next iteration
BulkPace(settled) ==
    IF BulkDelays
    THEN /\ pc' = "delaying"
         /\ i' = i
         /\ log' = log \o << settled, DelayEvent >>
    ELSE /\ pc' = "loop"
         /\ i' = i + 1
         /\ log' = Append(log, settled)

\* a catch block that rethrows
BulkAfterCatch_Rethrow(settled) ==
    /\ pc' = "thrown"
    /\ i' = i
    /\ log' = Append(log, settled)

\* a catch block that breaks whatever continueOnError says
BulkAfterCatch_AlwaysBreak(settled) == BulkBreak(settled)

\* a catch block that tries the first item that throws a second time
BulkAfterCatch_RetryOnce(settled) ==
    IF BulkStopsOnError
    THEN BulkBreak(settled)
    ELSE /\ pc' = "loop"
         /\ i' = (IF Len(results) <= i THEN i ELSE i + 1)
         /\ log' = Append(log, settled)

\* the end of the catch block: break, or straight to the next iteration
BulkAfterCatch(settled) ==
    IF BulkStopsOnError
    THEN BulkBreak(settled)
    ELSE /\ pc' = "loop"
         /\ i' = i + 1
         /\ log' = Append(log, settled)

\* the call: config.recipientAddresses.length of a null list throws
SendBulkMessages_Enter ==
    /\ \/ pc = "call" /\ entry = "bulk"
       \/ pc = "delegated"
    /\ IF config.recipientsNull
       THEN /\ Raise
            /\ UNCHANGED << results, totalSent, totalFailed, i, io >>
       ELSE /\ results' = << >>
            /\ totalSent' = 0
            /\ totalFailed' = 0
            /\ i' = 0
            /\ pc' = "loop"
            /\ ret' = ret
    /\ UNCHANGED << entry, network, config, log, io >>

\* the loop test, recipient.toBase58() and the call of sendMessage
Bulk_LoopHead ==
    /\ pc = "loop" /\ entry \in { "bulk", "file", "cliBulk" }
    /\ IF i < Len(config.recipientAddresses)
       THEN IF config.recipientAddresses[i + 1] = NullKey
            THEN Raise /\ log' = log
            ELSE /\ pc' = "sending"
                 /\ ret' = ret
                 /\ log' = Append(log,
                        Event("send", i, config.recipientAddresses[i + 1],
                              config.message, 0, ""))
       ELSE pc' = "summary" /\ ret' = ret /\ log' = log
    /\ UNCHANGED << entry, network, config, i, results, totalSent,
                    totalFailed, io >>

\* the awaited sendMessage settles: the rest of the loop body
Bulk_SendSettled ==
    /\ pc = "sending" /\ entry \in { "bulk", "file", "cliBulk" }
    /\ \E out \in SendOutcomes :
         LET recipient == config.recipientAddresses[i + 1]
             recipientAddress == toBase58(recipient)
             result == sendMessage(recipient, config.message, out)
             settled == Event("settled", i, recipient, config.message, 0,
                              out.kind)
         IN  IF out.kind = "throws"
             THEN /\ BulkOnCaught(recipientAddress, out.thrown)
                  /\ BulkAfterCatch(settled)
             ELSE IF result.success
             THEN /\ BulkOnSuccess(recipientAddress, result)
                  /\ BulkPace(settled)
             ELSE /\ BulkOnFailure(recipientAddress, result)
                  /\ IF BulkStopsOnError
                     THEN BulkBreak(settled)
                     ELSE BulkPace(settled)
    /\ UNCHANGED << entry, network, config, ret, io >>

\* the timer of the awaited delay fires
Bulk_DelayElapsed ==
    /\ pc = "delaying" /\ entry \in { "bulk", "file", "cliBulk" }
    /\ pc' = "loop"
    /\ i' = i + 1
    /\ log' = Append(log, ElapsedEvent)
    /\ UNCHANGED << entry, network, config, results, totalSent, totalFailed,
                    ret, io >>

\* overall success taken as "something was sent"
BulkOverallSuccess_AnySent == totalSent > 0

\* const overallSuccess = totalFailed === 0
BulkOverallSuccess == totalFailed = 0

\* the summary and the return
Bulk_Return ==
    /\ pc = "summary" /\ entry \in { "bulk", "file", "cliBulk" }
    /\ ret' = << [ totalSent |-> totalSent, totalFailed |-> totalFailed,
                   results |-> results,
                   overallSuccess |-> BulkOverallSuccess ] >>
    /\ pc' = "done"
    /\ UNCHANGED << entry, network, config, i, results, totalSent,
                    totalFailed, log, io >>

\* ------------------------------------------------------ sendBulkMemoOnly
\* an empty messages list falling back to the single message
MemoMessages_EmptyFallsBack ==
    IF config.messagesGiven /\ config.messages # << >>
    THEN config.messages ELSE << config.message >>

\* const messages = config.messages || [config.message]
MemoMessages ==
    IF config.messagesGiven THEN config.messages ELSE << config.message >>

\* message.substring(...) of null
SubstringTypeError ==
    [isError |-> TRUE,
     message |-> "Cannot read properties of null (reading 'substring')"]

MemoRecordSuccess(result) ==
    [ recipientAddress |-> << "memo-only" >>, signature |-> result.signature,
      success |-> TRUE, error |-> Undefined,
      explorerUrl |-> result.explorerUrl ]

MemoRecordFailure(result) ==
    [ recipientAddress |-> << "memo-only" >>, signature |-> NoSignature,
      success |-> FALSE, error |-> result.error,
      explorerUrl |-> UndefinedText ]

MemoRecordCaught(thrown) ==
    [ recipientAddress |-> << "memo-only" >>, signature |-> NoSignature,
      success |-> FALSE, error |-> ErrorText(thrown),
      explorerUrl |-> UndefinedText ]

\* totalSent++ and results.push of the success branch
MemoOnSuccess(result) ==
    /\ totalSent' = totalSent + 1
    /\ totalFailed' = totalFailed
    /\ results' = Append(results, MemoRecordSuccess(result))

\* totalFailed++ and results.push of the reported-failure branch
MemoOnFailure(result) ==
    /\ totalFailed' = totalFailed + 1
    /\ totalSent' = totalSent
    /\ results' = Append(results, MemoRecordFailure(result))

\* totalFailed++ and results.push of the catch block
MemoOnCaught(thrown) ==
    /\ totalFailed' = totalFailed + 1
    /\ totalSent' = totalSent
    /\ results' = Append(results, MemoRecordCaught(thrown))

\* a memo loop whose continueOnError defaults to true when absent
MemoStopsOnError_DefaultContinue == config.continueOnError = "false"

\* !config.continueOnError
MemoStopsOnError == ~Truthy(config.continueOnError)

\* config.delayBetweenTx && i < messages.length - 1
MemoDelays == TruthyNum(config.delayBetweenTx) /\ i < Len(MemoMessages) - 1

\* break
MemoBreak(settled) ==
    /\ pc' = "summary"
    /\ i' = i
    /\ log' = Append(log, settled)

\* the end of the try block: the optional delay, then the next iteration
MemoPace(settled) ==
    IF MemoDelays
    THEN /\ pc' = "delaying"
         /\ i' = i
         /\ log' = log \o << settled, DelayEvent >>
    ELSE /\ pc' = "loop"
         /\ i' = i + 1
         /\ log' = Append(log, settled)

\* the end of the catch block: break, or straight to the next iteration
MemoAfterCatch(settled) ==
    IF MemoStopsOnError
    THEN MemoBreak(settled)
    ELSE /\ pc' = "loop"
         /\ i' = i + 1
         /\ log' = Append(log, settled)

SendBulkMemoOnly_Enter ==
    /\ pc = "call" /\ entry = "memo"
    /\ results' = << >>
    /\ totalSent' = 0
    /\ totalFailed' = 0
    /\ i' = 0
    /\ pc' = "loop"
    /\ UNCHANGED << entry, network, config, ret, log, io >>

\* the loop test, the progress line (message.substring) and the call of
\* sendMemoOnly; a throw of the progress line lands in the catch block
Memo_LoopHead ==
    /\ pc = "loop" /\ entry = "memo"
    /\ IF i < Len(MemoMessages)
       THEN IF MemoMessages[i + 1] = NonString
            THEN /\ MemoOnCaught(SubstringTypeError)
                 /\ MemoAfterCatch(Event("caught", i, NullKey, NonString, 0,
                                         "throws"))
            ELSE /\ pc' = "sending"
                 /\ i' = i
                 /\ log' = Append(log,
                        Event("send", i, NullKey, MemoMessages[i + 1], 0, ""))
                 /\ UNCHANGED << results, totalSent, totalFailed, io >>
       ELSE /\ pc' = "summary"
            /\ UNCHANGED << i, log, results, totalSent, totalFailed, io >>
    /\ UNCHANGED << entry, network, config, ret, io >>

\* the awaited sendMemoOnly settles: the rest of the loop body
Memo_SendSettled ==
    /\ pc = "sending" /\ entry = "memo"
    /\ \E out \in SendOutcomes :
         LET message == MemoMessages[i + 1]
             result == sendMemoOnly(message, out)
             settled == Event("settled", i, NullKey, message, 0, out.kind)
         IN  IF out.kind = "throws"
             THEN /\ MemoOnCaught(out.thrown)
                  /\ MemoAfterCatch(settled)
             ELSE IF result.success
             THEN /\ MemoOnSuccess(result)
                  /\ MemoPace(settled)
             ELSE /\ MemoOnFailure(result)
                  /\ IF MemoStopsOnError
                     THEN MemoBreak(settled)
                     ELSE MemoPace(settled)
    /\ UNCHANGED << entry, network, config, ret, io >>

\* the timer of the awaited delay fires
Memo_DelayElapsed ==
    /\ pc = "delaying" /\ entry = "memo"
    /\ pc' = "loop"
    /\ i' = i + 1
    /\ log' = Append(log, ElapsedEvent)
    /\ UNCHANGED << entry, network, config, results, totalSent, totalFailed,
                    ret, io >>

\* overall success taken as "something was sent"
MemoOverallSuccess_AnySent == totalSent > 0

\* const overallSuccess = totalFailed === 0
MemoOverallSuccess == totalFailed = 0

\* the summary and the return
Memo_Return ==
    /\ pc = "summary" /\ entry = "memo"
    /\ ret' = << [ totalSent |-> totalSent, totalFailed |-> totalFailed,
                   results |-> results,
                   overallSuccess |-> MemoOverallSuccess ] >>
    /\ pc' = "done"
    /\ UNCHANGED << entry, network, config, i, results, totalSent,
                    totalFailed, log, io >>

\* -------------------------------------------------- sendMessagesFromFile
\* reads and validates the file, then delegates to sendBulkMessages with
\* the valid addresses
\* a bulkConfig that leaves continueOnError out
bulkConfig_DropsContinueOnError(validation) ==
    [config EXCEPT !.recipientAddresses = validation.validAddresses,
                   !.continueOnError = Undefined]

\* const bulkConfig: the valid addresses of the file, the rest passed on
bulkConfig(validation) ==
    [config EXCEPT !.recipientAddresses = validation.validAddresses]

\* the awaits of readRecipientsFile: access and readFile are performed by
\* the file system while the call waits, and their results are delivered
\* to the call in a later turn of the event loop
FilePending ==
    /\ entry \in { "file", "read" }
    /\ pc \in { "accessing", "accessed", "reading", "readDone" }

\* the file system performs the access of checkRecipientsFile
Access_Performed ==
    /\ entry \in { "file", "read" } /\ pc = "accessing"
    /\ io' = [io EXCEPT !.access = << checkRecipientsFile(config.recipientsFile) >>]
    /\ pc' = "accessed"
    /\ UNCHANGED << entry, network, config, i, results, totalSent,
                    totalFailed, ret, log >>

\* the file system performs the readFile: it reads the file as it is then
ReadFile_Performed ==
    /\ entry \in { "file", "read" } /\ pc = "reading"
    /\ io' = [io EXCEPT !.read = << config.recipientsFile >>]
    /\ pc' = "readDone"
    /\ UNCHANGED << entry, network, config, i, results, totalSent,
                    totalFailed, ret, log >>

\* the file writeFile leaves when it has opened the path and written nothing
EmptyFile ==
    [accessible |-> TRUE, readOk |-> TRUE, readError |-> NoThrown,
     content |-> << >>]

\* the file FileUtils.createSampleRecipientsFile writes: comment lines and
\* empty lines, the example addresses inside comments
SampleFile ==
    [accessible |-> TRUE, readOk |-> TRUE, readError |-> NoThrown,
     content |-> << "#", " ", "c", "\n", "\n", "#", " " >> \o Addr0
                    \o << "\n" >>]

\* other work of the event loop, before the call or while it waits: a call
\* of FileUtils.createSampleRecipientsFile on the same path, up to its
\* await of the import
CreateSampleRecipientsFile_Call ==
    /\ entry \in { "file", "read" } /\ (pc = "call" \/ FilePending)
    /\ io.sample \in { "idle", "written", "rejected" }
    /\ io' = [io EXCEPT !.sample = "importing"]
    /\ UNCHANGED << entry, network, config, pc, i, results, totalSent,
                    totalFailed, ret, log >>

\* the import settles and writeFile is called
CreateSampleRecipientsFile_Import ==
    /\ entry \in { "file", "read" } /\ (pc = "call" \/ FilePending)
    /\ io.sample = "importing"
    /\ io' = [io EXCEPT !.sample = "writing"]
    /\ UNCHANGED << entry, network, config, pc, i, results, totalSent,
                    totalFailed, ret, log >>

\* writeFile opens the path, which creates or empties the file; on a
\* directory it rejects and leaves the path as it is
CreateSampleRecipientsFile_Open ==
    /\ entry \in { "file", "read" } /\ (pc = "call" \/ FilePending)
    /\ io.sample = "writing"
    /\ IF config.recipientsFile = Directory
       THEN /\ io' = [io EXCEPT !.sample = "rejected"]
            /\ config' = config
       ELSE /\ io' = [io EXCEPT !.sample = "opened"]
            /\ config' = [config EXCEPT !.recipientsFile = EmptyFile]
    /\ UNCHANGED << entry, network, pc, i, results, totalSent, totalFailed,
                    ret, log >>

\* writeFile writes the sample content and the call resolves
CreateSampleRecipientsFile_Write ==
    /\ entry \in { "file", "read" } /\ (pc = "call" \/ FilePending)
    /\ io.sample = "opened"
    /\ io' = [io EXCEPT !.sample = "written"]
    /\ config' = [config EXCEPT !.recipientsFile = SampleFile]
    /\ UNCHANGED << entry, network, pc, i, results, totalSent, totalFailed,
                    ret, log >>

\* sendMessagesFromFile from the call to the await of access inside
\* readRecipientsFile
SendMessagesFromFile_Call ==
    /\ pc = "call" /\ entry = "file"
    /\ pc' = "accessing"
    /\ UNCHANGED << entry, network, config, i, results, totalSent,
                    totalFailed, ret, log, io >>

\* the result of access is delivered: a file that could not be accessed
\* gives the zero result; otherwise readFile is started and the call waits
\* for it
SendMessagesFromFile_Access ==
    /\ pc = "accessed" /\ entry = "file"
    /\ IF io.access[1]
       THEN pc' = "reading" /\ ret' = ret
       ELSE pc' = "done" /\ ret' = << ZeroResult >>
    /\ UNCHANGED << entry, network, config, i, results, totalSent,
                    totalFailed, log, io >>

\* while the call waits the caller, who holds the config object, writes
\* its message, delayBetweenTx or continueOnError
Caller_WritesConfig ==
    /\ FilePending /\ entry = "file"
    /\ \E m \in Messages, d \in Delays, c \in Flags :
          /\ << m, d, c >> # << config.message, config.delayBetweenTx,
                                config.continueOnError >>
          /\ config' = [config EXCEPT !.message = m,
                                      !.delayBetweenTx = d,
                                      !.continueOnError = c]
    /\ UNCHANGED << entry, network, pc, i, results, totalSent, totalFailed,
                    ret, log, io >>

\* what readFile read is delivered: the validation, then the zero result
\* or bulkConfig and the call of sendBulkMessages
SendMessagesFromFile_Read ==
    /\ pc = "readDone" /\ entry = "file"
    /\ LET validation == readRecipientsFile(io.access[1], io.read[1])
       IN  IF ~validation.isValid \/ validateRecipientsThrows(validation)
           THEN /\ ret' = << ZeroResult >>
                /\ pc' = "done"
                /\ config' = config
           ELSE /\ config' = bulkConfig(validation)
                /\ pc' = "delegated"
                /\ ret' = ret
    /\ UNCHANGED << entry, network, i, results, totalSent, totalFailed, log,
                    io >>

\* ------------------------------------- sendMessage / sendMemoOnly alone
\* a direct call of a single operation, step by step.  The try block spans
\* the whole body: building the transaction, the blockhash fetch and the
\* signing, submission and confirmation of sendAndConfirmTransaction.
TryStages == { "build", "blockhash", "confirm" }

\* a try block that starts after the blockhash fetch
sendMessageCatches_AfterBlockhash(stage) == stage = "confirm"

\* the catch of sendMessage covers the stage
sendMessageCatches(stage) == stage \in TryStages

\* a try block that starts after the transaction is built
sendMemoOnlyCatches_AfterBuild(stage) == stage \in { "blockhash", "confirm" }

\* the catch of sendMemoOnly covers the stage
sendMemoOnlyCatches(stage) == stage \in TryStages

\* return { signature, success: true, explorerUrl }
TransactionSuccess(signature) ==
    [ signature |-> signature, success |-> TRUE, error |-> Undefined,
      explorerUrl |-> getExplorerUrl(signature, network) ]

\* return { signature: "", success: false, error: ... }
TransactionFailure(thrown) ==
    [ signature |-> NoSignature, success |-> FALSE,
      error |-> ErrorText(thrown), explorerUrl |-> UndefinedText ]

\* config.recipientAddress.toBase58() of a null recipient
ToBase58TypeError ==
    [isError |-> TRUE,
     message |-> "Cannot read properties of null (reading 'toBase58')"]

\* Buffer.from(config.message, "utf8") of a null message
BufferFromTypeError ==
    [isError |-> TRUE,
     message |-> "The first argument must be of type string or an instance of Buffer, ArrayBuffer, or Array or an Array-like Object. Received null"]

SingleRecipient == config.recipientAddresses[1]

\* what a failing stage of sendMessage leads to
SendMessage_Fails(stage, thrown) ==
    IF sendMessageCatches(stage)
    THEN ret' = << TransactionFailure(thrown) >> /\ pc' = "resolved"
    ELSE ret' = ret /\ pc' = "thrown"

\* what a failing stage of sendMemoOnly leads to
SendMemoOnly_Fails(stage, thrown) ==
    IF sendMemoOnlyCatches(stage)
    THEN ret' = << TransactionFailure(thrown) >> /\ pc' = "resolved"
    ELSE ret' = ret /\ pc' = "thrown"

\* sendMessage up to the await of getLatestBlockhash
SendMessage_Build ==
    /\ pc = "call" /\ entry = "single"
    /\ IF SingleRecipient = NullKey \/ config.message = NonString
       THEN /\ SendMessage_Fails("build",
                               IF SingleRecipient = NullKey
                               THEN ToBase58TypeError
                               ELSE BufferFromTypeError)
            /\ log' = Append(log, Event("build", 0, SingleRecipient,
                                        config.message, 0, "throws"))
       ELSE /\ pc' = "blockhash"
            /\ ret' = ret
            /\ log' = log
    /\ UNCHANGED << entry, network, config, i, results, totalSent,
                    totalFailed, io >>

\* getLatestBlockhash settles
SendMessage_Blockhash ==
    /\ pc = "blockhash" /\ entry = "single"
    /\ \/ /\ pc' = "confirming"
          /\ ret' = ret
          /\ log' = Append(log, Event("blockhash", 0, SingleRecipient,
                                      config.message, 0, "ok"))
       \/ \E t \in ThrownValues :
             /\ SendMessage_Fails("blockhash", t)
             /\ log' = Append(log, Event("blockhash", 0, SingleRecipient,
                                         config.message, 0, "rejected"))
    /\ UNCHANGED << entry, network, config, i, results, totalSent,
                    totalFailed, io >>

\* sendAndConfirmTransaction settles
SendMessage_Confirm ==
    /\ pc = "confirming" /\ entry = "single"
    /\ \/ /\ ret' = << TransactionSuccess(
                           SignatureOf(SingleRecipient, config.message)) >>
          /\ pc' = "resolved"
          /\ log' = Append(log, Event("submit", 0, SingleRecipient,
                                      config.message, 0, "confirmed"))
       \/ \E t \in ThrownValues :
             /\ SendMessage_Fails("confirm", t)
             /\ log' = Append(log, Event("submit", 0, SingleRecipient,
                                         config.message, 0, "rejected"))
    /\ UNCHANGED << entry, network, config, i, results, totalSent,
                    totalFailed, io >>

\* sendMemoOnly up to the await of getLatestBlockhash
SendMemoOnly_Build ==
    /\ pc = "call" /\ entry = "singleMemo"
    /\ IF config.message = NonString
       THEN /\ SendMemoOnly_Fails("build", BufferFromTypeError)
            /\ log' = Append(log, Event("build", 0, NullKey,
                                        config.message, 0, "throws"))
       ELSE /\ pc' = "blockhash"
            /\ ret' = ret
            /\ log' = log
    /\ UNCHANGED << entry, network, config, i, results, totalSent,
                    totalFailed, io >>

\* getLatestBlockhash settles
SendMemoOnly_Blockhash ==
    /\ pc = "blockhash" /\ entry = "singleMemo"
    /\ \/ /\ pc' = "confirming"
          /\ ret' = ret
          /\ log' = Append(log, Event("blockhash", 0, NullKey,
                                      config.message, 0, "ok"))
       \/ \E t \in ThrownValues :
             /\ SendMemoOnly_Fails("blockhash", t)
             /\ log' = Append(log, Event("blockhash", 0, NullKey,
                                         config.message, 0, "rejected"))
    /\ UNCHANGED << entry, network, config, i, results, totalSent,
                    totalFailed, io >>

\* sendAndConfirmTransaction settles
SendMemoOnly_Confirm ==
    /\ pc = "confirming" /\ entry = "singleMemo"
    /\ \/ /\ ret' = << TransactionSuccess(
                           SignatureOf(NullKey, config.message)) >>
          /\ pc' = "resolved"
          /\ log' = Append(log, Event("submit", 0, NullKey,
                                      config.message, 0, "confirmed"))
       \/ \E t \in ThrownValues :
             /\ SendMemoOnly_Fails("confirm", t)
             /\ log' = Append(log, Event("submit", 0, NullKey,
                                         config.message, 0, "rejected"))
    /\ UNCHANGED << entry, network, config, i, results, totalSent,
                    totalFailed, io >>

\* ------------------------------------------- readRecipientsFile alone
\* a direct call, up to the await of access inside checkRecipientsFile
ReadRecipientsFile_Call ==
    /\ pc = "call" /\ entry = "read"
    /\ pc' = "accessing"
    /\ UNCHANGED << entry, network, config, i, results, totalSent,
                    totalFailed, ret, log, io >>

\* the result of access is delivered: the early return, or readFile is
\* started and the call waits for it
ReadRecipientsFile_Access ==
    /\ pc = "accessed" /\ entry = "read"
    /\ IF io.access[1]
       THEN pc' = "reading" /\ ret' = ret
       ELSE /\ ret' = << readRecipientsFile(io.access[1], NoFile) >>
            /\ pc' = "validated"
    /\ UNCHANGED << entry, network, config, i, results, totalSent,
                    totalFailed, log, io >>

\* what readFile read is delivered; the lines are parsed and validated
ReadRecipientsFile_Read ==
    /\ pc = "readDone" /\ entry = "read"
    /\ ret' = << readRecipientsFile(io.access[1], io.read[1]) >>
    /\ pc' = "validated"
    /\ UNCHANGED << entry, network, config, i, results, totalSent,
                    totalFailed, log, io >>

\* ------------------------------------------------- the sender keypair
\* a JavaScript string used as a condition: absent and empty are falsy
Configured(v) == v \notin { Undefined, "" }

\* WalletUtils.loadKeypairFromPrivateKey returns
loadKeypairFromPrivateKey == config.privateKeyDecodes

\* loadWalletFromFile: walletPath || ~/.config/solana/id.json
WalletFilePath ==
    IF Configured(config.walletPath) THEN "walletPath"
    ELSE "~/.config/solana/id.json"

\* WalletUtils.loadKeypairFromFile returns
loadKeypairFromFile == config.walletFileLoads

Keypair(source, path) == << [source |-> source, path |-> path] >>

\* the outcomes of a call of the sender's own sendMessage or sendMemoOnly,
\* which return a record and do not throw
OwnSendOutcomes == { out \in SendOutcomes : out.kind # "throws" }

\* the five one-second waits before defaultExample starts
CountdownTimers == 5

TimersFired == Cardinality({ p \in 1..Len(log) : log[p].ev = "timer" })

\* the address and the texts defaultExample sends; the code point that ends
\* the first text is written by its name
ExampleRecipient == 58
ExampleMessage == "Hello from Solana! This is a test message U+1F680"
ExampleMemo == "This is a memo-only message without any SOL transfer"

\* defaultExample from the call to its first wait: getConfig has read the
\* environment
DefaultExample_Start ==
    /\ pc = "call" /\ entry = "example"
    /\ pc' = "countdown"
    /\ UNCHANGED << entry, network, config, i, results, totalSent,
                    totalFailed, ret, log, io >>

\* one of the first four timers fires and the next wait starts
DefaultExample_TimerFired ==
    /\ pc = "countdown" /\ entry = "example"
    /\ TimersFired < CountdownTimers - 1
    /\ log' = Append(log, Event("timer", TimersFired, NullKey, "", 1000, ""))
    /\ UNCHANGED << entry, network, config, pc, i, results, totalSent,
                    totalFailed, ret, io >>

WalletWrites == Cardinality({ p \in 1..Len(log) : log[p].ev = "walletFile" })

\* while defaultExample waits, the wallet file is written or removed
Caller_WritesWalletFile ==
    /\ pc = "countdown" /\ entry = "example"
    /\ WalletWrites < MaxWalletWrites
    /\ config' = [config EXCEPT !.walletFileLoads = ~@]
    /\ log' = Append(log, Event("walletFile", WalletWrites, NullKey, "", 0,
                                IF config.walletFileLoads THEN "removed"
                                ELSE "written"))
    /\ UNCHANGED << entry, network, pc, i, results, totalSent, totalFailed,
                    ret, io >>

\* the last timer fires: the sender keypair, then the await of getBalance;
\* a throw is caught at the end of defaultExample, which exits the process
\* with status 1
DefaultExample_LoadKeypair ==
    /\ pc = "countdown" /\ entry = "example"
    /\ TimersFired = CountdownTimers - 1
    /\ log' = Append(log, Event("timer", TimersFired, NullKey, "", 1000, ""))
    /\ IF Configured(config.privateKey)
       THEN IF loadKeypairFromPrivateKey
            THEN ret' = Keypair("privateKey", "") /\ pc' = "balance"
            ELSE ret' = ret /\ pc' = "exited"
       ELSE IF Configured(config.walletPath)
       THEN IF loadKeypairFromFile
            THEN ret' = Keypair("file", WalletFilePath) /\ pc' = "balance"
            ELSE ret' = ret /\ pc' = "exited"
       ELSE ret' = Keypair("generated", "") /\ pc' = "balance"
    /\ UNCHANGED << entry, network, config, i, results, totalSent,
                    totalFailed, io >>

\* getBalance settles: on a balance the first example calls sendMessage,
\* a rejection is caught at the end of defaultExample
DefaultExample_Balance ==
    /\ pc = "balance" /\ entry = "example"
    /\ \/ /\ pc' = "exampleMessage"
          /\ log' = Append(log, Event("balance", 0, NullKey, "", 0, "ok"))
       \/ /\ pc' = "exited"
          /\ log' = Append(log, Event("balance", 0, NullKey, "", 0,
                                      "rejected"))
    /\ UNCHANGED << entry, network, config, i, results, totalSent,
                    totalFailed, ret, io >>

\* sendMessage settles, its result is printed, and the second example
\* calls sendMemoOnly
DefaultExample_MessageSettled ==
    /\ pc = "exampleMessage" /\ entry = "example"
    /\ \E out \in OwnSendOutcomes :
          log' = Append(log, Event("submit", 0, ExampleRecipient,
                                   ExampleMessage, 0, out.kind))
    /\ pc' = "exampleMemo"
    /\ UNCHANGED << entry, network, config, i, results, totalSent,
                    totalFailed, ret, io >>

\* sendMemoOnly settles, its result is printed, and defaultExample ends
DefaultExample_MemoSettled ==
    /\ pc = "exampleMemo" /\ entry = "example"
    /\ \E out \in OwnSendOutcomes :
          log' = Append(log, Event("submit", 1, NullKey, ExampleMemo, 0,
                                   out.kind))
    /\ pc' = "exampleDone"
    /\ UNCHANGED << entry, network, config, i, results, totalSent,
                    totalFailed, ret, io >>

\* a JavaScript text used as a condition: absent and empty are falsy
TruthyText(t) == t \notin { UndefinedText, << >> }

\* runCli with --message and without --bulk, --recipients or --messages,
\* from the call to the await of the single operation: the sender keypair,
\* then sendMemoOnly with --memo-only, sendMessage with --recipient, or a
\* line of help; a throw (the keypair, the recipient address) is caught at
\* the end of runCli and printed as a CLI error
RunCli_SingleMessage ==
    /\ pc = "call" /\ entry = "cli"
    /\ LET loads == IF Configured(config.privateKey)
                    THEN loadKeypairFromPrivateKey ELSE loadKeypairFromFile
           keypair == IF Configured(config.privateKey)
                      THEN Keypair("privateKey", "")
                      ELSE Keypair("file", WalletFilePath)
       IN  IF ~loads
           THEN ret' = ret /\ pc' = "cliError"
           ELSE /\ ret' = keypair
                /\ IF config.memoOnly
                   THEN pc' = "cliMemo"
                   ELSE IF ~TruthyText(config.recipient)
                   THEN pc' = "cliReturned"
                   ELSE IF isValidPublicKey(config.recipient)
                   THEN pc' = "cliMessage"
                   ELSE pc' = "cliError"
    /\ UNCHANGED << entry, network, config, i, results, totalSent,
                    totalFailed, log, io >>

\* the awaited sendMemoOnly or sendMessage settles and its result is printed
RunCli_SingleSettled ==
    /\ pc \in { "cliMemo", "cliMessage" } /\ entry = "cli"
    /\ \E out \in OwnSendOutcomes :
          log' = Append(log,
                    Event("submit", 0,
                          IF pc = "cliMemo" THEN NullKey
                          ELSE toPublicKey(config.recipient),
                          config.message, 0, out.kind))
    /\ pc' = "cliDone"
    /\ UNCHANGED << entry, network, config, i, results, totalSent,
                    totalFailed, ret, io >>

\* ------------------------------------------- runCli, bulk recipients
\* a validation loop that leaves invalid addresses out and goes on
cliRecipientAddresses_SkipsInvalid(recipients) ==
    LET valid == SelectSeq(recipients, isValidPublicKey)
    IN  [ ok |-> TRUE, invalid |-> << >>,
          keys |-> [k \in 1..Len(valid) |-> toPublicKey(valid[k])] ]

\* the loop over options.recipients: WalletUtils.toPublicKey of each, and
\* a return at the first one that throws
cliRecipientAddresses(recipients) ==
    IF \A k \in 1..Len(recipients) : isValidPublicKey(recipients[k])
    THEN [ ok |-> TRUE, invalid |-> << >>,
           keys |-> [k \in 1..Len(recipients) |-> toPublicKey(recipients[k])] ]
    ELSE [ ok |-> FALSE,
           invalid |-> recipients[CHOOSE k \in 1..Len(recipients) :
                           /\ ~isValidPublicKey(recipients[k])
                           /\ \A h \in 1..(k - 1) :
                                 isValidPublicKey(recipients[h])],
           keys |-> << >> ]

CliPrinted(line, address) == << [printed |-> line, address |-> address] >>

\* runCli with --bulk and --recipients, without --memo-only, up to the
\* await of sendBulkMessages or to its return
RunCli_BulkRecipients ==
    /\ pc = "call" /\ entry = "cliBulk"
    /\ LET loads == IF Configured(config.privateKey)
                    THEN loadKeypairFromPrivateKey ELSE loadKeypairFromFile
           validated == cliRecipientAddresses(config.recipients)
       IN  IF ~loads
           THEN /\ pc' = "cliError"
                /\ ret' = ret
                /\ config' = config
           ELSE IF Len(config.recipients) = 0
           THEN /\ pc' = "cliReturned"
                /\ ret' = CliPrinted("Recipients list required", << >>)
                /\ config' = config
           ELSE IF ~Configured(config.message)
           THEN /\ pc' = "cliReturned"
                /\ ret' = CliPrinted("Message required", << >>)
                /\ config' = config
           ELSE IF ~validated.ok
           THEN /\ pc' = "cliReturned"
                /\ ret' = CliPrinted("Invalid recipient address",
                                     validated.invalid)
                /\ config' = config
           ELSE /\ pc' = "delegated"
                /\ ret' = ret
                /\ config' = [config EXCEPT
                       !.recipientAddresses = validated.keys,
                       !.continueOnError =
                           IF Truthy(config.continueOnError)
                           THEN "true" ELSE "false"]
    /\ UNCHANGED << entry, network, i, results, totalSent, totalFailed, log, io >>

\* ---------------------------------------------------------- specification
Next ==
    \/ SendBulkMessages_Enter
    \/ Bulk_LoopHead
    \/ Bulk_SendSettled
    \/ Bulk_DelayElapsed
    \/ Bulk_Return
    \/ SendBulkMemoOnly_Enter
    \/ Memo_LoopHead
    \/ Memo_SendSettled
    \/ Memo_DelayElapsed
    \/ Memo_Return
    \/ SendMessagesFromFile_Call
    \/ Access_Performed
    \/ SendMessagesFromFile_Access
    \/ ReadFile_Performed
    \/ CreateSampleRecipientsFile_Call
    \/ CreateSampleRecipientsFile_Import
    \/ CreateSampleRecipientsFile_Open
    \/ CreateSampleRecipientsFile_Write
    \/ Caller_WritesConfig
    \/ SendMessagesFromFile_Read
    \/ SendMessage_Build
    \/ SendMessage_Blockhash
    \/ SendMessage_Confirm
    \/ SendMemoOnly_Build
    \/ SendMemoOnly_Blockhash
    \/ SendMemoOnly_Confirm
    \/ ReadRecipientsFile_Call
    \/ ReadRecipientsFile_Access
    \/ ReadRecipientsFile_Read
    \/ DefaultExample_Start
    \/ DefaultExample_TimerFired
    \/ Caller_WritesWalletFile
    \/ DefaultExample_LoadKeypair
    \/ DefaultExample_Balance
    \/ DefaultExample_MessageSettled
    \/ DefaultExample_MemoSettled
    \/ RunCli_SingleMessage
    \/ RunCli_SingleSettled
    \/ RunCli_BulkRecipients

Spec == Init /\ [][Next]_vars

\* ------------------------------------- two runs on one sender at once
\* Two calls of sendBulkMessages on the same SolanaMessageSender, started
\* together; every await is a point where the other run may go on.  Each
\* variable holds a pair, one component per run; network is the one
\* this.config.network of the instance, read by both.
Runs == { 1, 2 }

\* each run has its own message and its own recipient, so that a record
\* tells which run it comes from
ConcConfigs(message, recipient) ==
    { [message |-> message, recipientsNull |-> FALSE,
       recipientAddresses |-> [k \in 1..n |-> recipient],
       messagesGiven |-> FALSE, messages |-> << >>,
       delayBetweenTx |-> d, continueOnError |-> c, recipientsFile |-> NoFile]
      : n \in 1..MaxConcItems,
        d \in { UndefinedNum, MaxDelay }, c \in { Undefined, "true" } }

ConcOutcomes ==
    { out \in SendOutcomes : out.kind = "confirmed" \/ ~out.thrown.isError }

\* the other run is waiting for a send or a timer
OtherInFlight(r) == \E o \in Runs \ { r } : pc[o] \in { "sending", "delaying" }

ConcInit ==
    /\ entry = "concurrent"
    /\ network \in Networks
    /\ config \in ConcConfigs("gm", 0) \X ConcConfigs("hello", 58)
    /\ pc = << "call", "call" >>
    /\ i = << 0, 0 >>
    /\ results = << << >>, << >> >>
    /\ totalSent = << 0, 0 >>
    /\ totalFailed = << 0, 0 >>
    /\ ret = << << >>, << >> >>
    /\ log = [outs |-> << << >>, << >> >>, overlapped |-> FALSE]
    /\ io = NoIo

\* results, totalSent and totalFailed kept in fields of the instance
Accumulator_OnInstance(r) == 1

\* const results = [], let totalSent = 0, let totalFailed = 0: locals of
\* the call, one set per run
Accumulator(r) == r

\* the call up to the first test of the loop
Conc_Enter(r) ==
    /\ pc[r] = "call"
    /\ results' = [results EXCEPT ![Accumulator(r)] = << >>]
    /\ totalSent' = [totalSent EXCEPT ![Accumulator(r)] = 0]
    /\ totalFailed' = [totalFailed EXCEPT ![Accumulator(r)] = 0]
    /\ i' = [i EXCEPT ![r] = 0]
    /\ pc' = [pc EXCEPT ![r] = "loop"]
    /\ UNCHANGED << entry, network, config, ret, log, io >>

\* the loop test and the body up to the await of sendMessage
Conc_LoopHead(r) ==
    /\ pc[r] = "loop"
    /\ IF i[r] < Len(config[r].recipientAddresses)
       THEN /\ pc' = [pc EXCEPT ![r] = "sending"]
            /\ log' = [log EXCEPT
                         !.overlapped = @ \/ OtherInFlight(r)]
       ELSE /\ pc' = [pc EXCEPT ![r] = "summary"]
            /\ log' = log
    /\ UNCHANGED << entry, network, config, i, results, totalSent,
                    totalFailed, ret, io >>

\* the awaited sendMessage settles: the rest of the loop body
Conc_SendSettled(r) ==
    /\ pc[r] = "sending"
    /\ \E out \in ConcOutcomes :
         LET c == config[r]
             a == Accumulator(r)
             recipient == c.recipientAddresses[i[r] + 1]
             recipientAddress == toBase58(recipient)
             result == sendMessage(recipient, c.message, out)
             record == IF out.kind = "throws"
                       THEN BulkRecordCaught(recipientAddress, out.thrown)
                       ELSE IF result.success
                       THEN BulkRecordSuccess(recipientAddress, result)
                       ELSE BulkRecordFailure(recipientAddress, result)
             stops == ~record.success /\ ~Truthy(c.continueOnError)
             delays == /\ out.kind # "throws"
                       /\ TruthyNum(c.delayBetweenTx)
                       /\ i[r] < Len(c.recipientAddresses) - 1
             settled == [log EXCEPT !.outs[r] = Append(@, out.kind)]
         IN  /\ results' = [results EXCEPT ![a] = Append(@, record)]
             /\ totalSent' = [totalSent EXCEPT
                                ![a] = IF record.success THEN @ + 1 ELSE @]
             /\ totalFailed' = [totalFailed EXCEPT
                                  ![a] = IF record.success THEN @ ELSE @ + 1]
             /\ IF stops
                THEN /\ pc' = [pc EXCEPT ![r] = "summary"]
                     /\ i' = i
                     /\ log' = settled
                ELSE IF delays
                THEN /\ pc' = [pc EXCEPT ![r] = "delaying"]
                     /\ i' = i
                     /\ log' = settled
                ELSE /\ pc' = [pc EXCEPT ![r] = "loop"]
                     /\ i' = [i EXCEPT ![r] = @ + 1]
                     /\ log' = settled
    /\ UNCHANGED << entry, network, config, ret, io >>

\* the timer of the awaited delay fires
Conc_DelayElapsed(r) ==
    /\ pc[r] = "delaying"
    /\ pc' = [pc EXCEPT ![r] = "loop"]
    /\ i' = [i EXCEPT ![r] = @ + 1]
    /\ UNCHANGED << entry, network, config, results, totalSent, totalFailed,
                    ret, log, io >>

\* overallSuccess and the returned BulkMessageResult
Conc_Return(r) ==
    /\ pc[r] = "summary"
    /\ ret' = [ret EXCEPT ![r] =
                 << [ totalSent |-> totalSent[Accumulator(r)],
                      totalFailed |-> totalFailed[Accumulator(r)],
                      results |-> results[Accumulator(r)],
                      overallSuccess |-> totalFailed[Accumulator(r)] = 0 ] >>]
    /\ pc' = [pc EXCEPT ![r] = "done"]
    /\ UNCHANGED << entry, network, config, i, results, totalSent,
                    totalFailed, log, io >>

ConcNext ==
    \E r \in Runs :
        \/ Conc_Enter(r)
        \/ Conc_LoopHead(r)
        \/ Conc_SendSettled(r)
        \/ Conc_DelayElapsed(r)
        \/ Conc_Return(r)

SpecConcurrent == ConcInit /\ [][ConcNext]_vars

\* ---------------------------------------------------------------- typing
TypeOK ==
    /\ pc \in { "call", "delegated", "loop", "sending", "delaying",
                "summary", "done", "thrown",
                "blockhash", "confirming", "resolved",
                "accessing", "accessed", "reading", "readDone",
                "validated",
                "exited", "cliError", "cliReturned",
                "countdown", "balance", "exampleMessage", "exampleMemo",
                "exampleDone", "cliMemo", "cliMessage", "cliDone" }
    /\ i \in 0..MaxItems
    /\ totalSent \in 0..MaxItems
    /\ totalFailed \in 0..MaxItems
    /\ Len(ret) \in { 0, 1 }
    /\ io.sample \in { "idle", "importing", "writing", "opened", "written",
                       "rejected" }
    /\ io.access \in { << >>, << TRUE >>, << FALSE >> }
    /\ Len(io.read) \in { 0, 1 }
    /\ io.read # << >> => io.access = << TRUE >>

\* ------------------------------------------------------- observations
\* the work list of the running dispatch
WorkItemCount ==
    IF entry = "memo" THEN Len(MemoMessages) ELSE Len(config.recipientAddresses)

\* work item k (0-based) can be handed to the single-operation client
Sendable(k) ==
    IF entry = "memo" THEN MemoMessages[k + 1] # NonString
    ELSE config.recipientAddresses[k + 1] # NullKey

Returned == pc = "done"
Outcome == ret[1]

HasFailure(rs) == \E k \in 1..Len(rs) : ~rs[k].success
\* 0-based index of the first failing result
FirstFailure(rs) ==
    (CHOOSE k \in 1..Len(rs) :
        ~rs[k].success /\ \A h \in 1..(k - 1) : rs[h].success) - 1

SendAttempted(k) == \E p \in 1..Len(log) : log[p].ev = "send" /\ log[p].idx = k
Processed(e) == e.ev \in { "settled", "caught" }
ItemProcessed(k) == \E p \in 1..Len(log) : Processed(log[p]) /\ log[p].idx = k

\* C1: with continueOnError false or absent, once the first failing item is
\* at index f the results have length f + 1 (in the loop and at return) and
\* no send is attempted for an index above f.
C1_StopAtFirstFailure ==
    (entry \in { "bulk", "memo" } /\ ~Truthy(config.continueOnError)
        /\ HasFailure(results))
    => /\ Len(results) = FirstFailure(results) + 1
       /\ \A p \in 1..Len(log) :
              log[p].ev = "send" => log[p].idx <= FirstFailure(results)
       /\ Returned => Len(Outcome.results) = FirstFailure(results) + 1

C1_Witness ==
    /\ Returned /\ entry = "bulk" /\ ~Truthy(config.continueOnError)
    /\ WorkItemCount = 3
    /\ Len(Outcome.results) = 2
    /\ Outcome.results[1].success /\ ~Outcome.results[2].success

\* C2: with continueOnError true, a returned run has processed every work
\* item, attempted a send for every item that can be sent, and returns as
\* many results as there are work items.
C2_ContinueAttemptsAll ==
    (entry \in { "bulk", "memo" } /\ Truthy(config.continueOnError)
        /\ Returned)
    => /\ Len(Outcome.results) = WorkItemCount
       /\ \A k \in 0..(WorkItemCount - 1) :
              ItemProcessed(k) /\ (Sendable(k) => SendAttempted(k))

C2_Witness ==
    /\ Returned /\ entry = "bulk" /\ Truthy(config.continueOnError)
    /\ WorkItemCount = 3
    /\ Len(Outcome.results) = 3
    /\ Outcome.results[1].success /\ ~Outcome.results[2].success
    /\ Outcome.results[3].success
    /\ Outcome.totalSent = 2 /\ Outcome.totalFailed = 1
    /\ ~Outcome.overallSuccess

\* C3: in every state of a dispatch run totalSent + totalFailed is the
\* number of recorded results, which never exceeds the number of work items;
\* the same holds of the returned record.
C3_CountersMatchResults ==
    /\ totalSent + totalFailed = Len(results)
    /\ Len(results) <= WorkItemCount
    /\ Returned =>
          /\ Outcome.totalSent + Outcome.totalFailed = Len(Outcome.results)
          /\ Len(Outcome.results) <= WorkItemCount

C3_Witness ==
    /\ pc = "sending" /\ Len(results) = 2
    /\ totalSent = 1 /\ totalFailed = 1

\* C4: every returned BulkMessageResult has overallSuccess exactly when its
\* totalFailed is 0 (all three bulk entry points).
C4_OverallIffNoFailures ==
    Returned => (Outcome.overallSuccess <=> Outcome.totalFailed = 0)

\* C5: with a positive delayBetweenTx exactly one delay of that length lies
\* between any two consecutively processed items, whatever the outcome of
\* the earlier one, and none follows the final processed item.
C5_OneDelayBetweenItems ==
    TruthyNum(config.delayBetweenTx) =>
      /\ \A p, q \in 1..Len(log) :
            (/\ p < q /\ Processed(log[p]) /\ Processed(log[q])
             /\ \A r \in (p + 1)..(q - 1) : ~Processed(log[r]))
            => /\ Cardinality({ r \in p..q : log[r].ev = "delay" }) = 1
               /\ \A r \in p..q : log[r].ev = "delay"
                                    => log[r].ms = config.delayBetweenTx
      /\ Returned =>
            \A p, q \in 1..Len(log) :
               (p < q /\ log[q].ev = "delay") =>
                  \E r \in (q + 1)..Len(log) : Processed(log[r])

\* C6: the step that settles a failed send (reported or thrown) appends a
\* failure result for that item and does not raise to the caller.
C6_FailuresRecordedNotRaised ==
    [][ (pc = "sending" /\ pc' # "sending")
          => /\ pc' # "thrown"
             /\ \A p \in 1..Len(log') :
                   (p > Len(log) /\ log'[p].ev = "settled"
                      /\ log'[p].kind # "confirmed")
                   => /\ Len(results') = Len(results) + 1
                      /\ Len(results') = log'[p].idx + 1
                      /\ ~results'[Len(results')].success
                      /\ totalFailed' = totalFailed + 1 ]_vars

C6_Witness ==
    /\ Returned /\ entry = "bulk" /\ Truthy(config.continueOnError)
    /\ \E p, q \in 1..Len(log) :
          /\ log[p].ev = "settled" /\ log[p].kind = "throws"
          /\ log[q].ev = "settled" /\ log[q].kind = "rejected"
    /\ Outcome.totalFailed = 2

\* C7: an exception that leaves sendBulkMessages / sendBulkMemoOnly is
\* raised before any send of the run has been attempted.
C7_RaisesBeforeAnySend ==
    pc = "thrown" => \A p \in 1..Len(log) : log[p].ev # "send"

\* C8: results keep the input order: results[k] is the outcome of work item
\* k, carrying the base58 text of recipientAddresses[k] in sendBulkMessages
\* and the outcome of sending messages[k] in sendBulkMemoOnly.
C8_ResultsInInputOrder ==
    \A k \in 0..(Len(results) - 1) :
       /\ \E p \in 1..Len(log) :
             /\ Processed(log[p]) /\ log[p].idx = k
             /\ results[k + 1].success <=> log[p].kind = "confirmed"
       /\ entry \in { "bulk", "file" } =>
             /\ results[k + 1].recipientAddress
                   = toBase58(config.recipientAddresses[k + 1])
             /\ results[k + 1].success =>
                   results[k + 1].signature
                      = SignatureOf(config.recipientAddresses[k + 1],
                                    config.message)
       /\ entry = "memo" =>
             /\ results[k + 1].success =>
                   results[k + 1].signature
                      = SignatureOf(NullKey, MemoMessages[k + 1])
             /\ ~results[k + 1].success =>
                   \/ ~Sendable(k)
                   \/ \E p \in 1..Len(log) :
                         /\ log[p].ev = "settled" /\ log[p].idx = k
                         /\ log[p].memo = MemoMessages[k + 1]

C8_Witness ==
    /\ Returned /\ entry = "bulk" /\ Len(Outcome.results) = 3
    /\ config.recipientAddresses[1] # config.recipientAddresses[2]
    /\ config.recipientAddresses[3] = config.recipientAddresses[1]
    /\ Outcome.results[1].recipientAddress = toBase58(0)
    /\ Outcome.results[2].recipientAddress = toBase58(58)
    /\ Outcome.results[1].success /\ ~Outcome.results[2].success

\* C9: sends are strictly sequential: a send is in flight only while the
\* run awaits it, each send is settled before anything else happens, a
\* started delay has elapsed before the next send, and sends start in
\* increasing index order.
C9_StrictlySequential ==
    /\ \A p \in 1..Len(log) :
          log[p].ev = "send" =>
             IF p = Len(log) THEN pc = "sending"
             ELSE log[p + 1].ev = "settled" /\ log[p + 1].idx = log[p].idx
    /\ Cardinality({ p \in 1..Len(log) : log[p].ev = "send" })
          - Cardinality({ p \in 1..Len(log) : log[p].ev = "settled" })
          = (IF pc = "sending" THEN 1 ELSE 0)
    /\ \A p \in 1..Len(log) :
          log[p].ev = "delay" =>
             IF p = Len(log) THEN pc = "delaying"
             ELSE log[p + 1].ev = "elapsed"
    /\ \A p, q \in 1..Len(log) :
          (p < q /\ log[p].ev = "send" /\ log[q].ev = "send")
             => log[p].idx < log[q].idx

C9_Witness ==
    /\ pc = "sending" /\ i = 2
    /\ \E p \in 1..Len(log) : log[p].ev = "elapsed"
    /\ Cardinality({ p \in 1..Len(log) : log[p].ev = "send" }) = 3

EarlyStopped ==
    /\ Returned
    /\ ~Truthy(config.continueOnError)
    /\ Outcome.totalFailed > 0

\* C10 as stated: a run ended by early-stop returns overallSuccess false
\* and strictly fewer results than work items.
C10_EarlyStopShorter ==
    EarlyStopped =>
       /\ ~Outcome.overallSuccess
       /\ Len(Outcome.results) < WorkItemCount

\* C10 amended: a run ended by early-stop returns overallSuccess false and
\* at most as many results as work items, strictly fewer exactly when the
\* failing item is not the last item of the list.
C10_EarlyStopShorterUnlessLast ==
    EarlyStopped =>
       /\ ~Outcome.overallSuccess
       /\ Len(Outcome.results) <= WorkItemCount
       /\ Len(Outcome.results) < WorkItemCount
             <=> FirstFailure(Outcome.results) < WorkItemCount - 1

C10_Witness ==
    /\ EarlyStopped /\ WorkItemCount = 3
    /\ Len(Outcome.results) = 2
    /\ ~Outcome.overallSuccess

\* a step that records a failure for the current item
RecordsFailure ==
    /\ Len(results') = Len(results) + 1
    /\ ~results'[Len(results')].success

\* C11 as stated: a failure never stops the batch, so every run that
\* returns has processed every work item.
C11_FailureNeverStops ==
    (Returned /\ entry \in { "bulk", "memo" })
    => \A k \in 0..(WorkItemCount - 1) : ItemProcessed(k)

\* C11 amended: with continueOnError true the step that records a failure
\* does not end the run: it goes on to the next work item, directly or
\* through the delay.
C11_FailureContinuesWhenAsked ==
    [][ (Truthy(config.continueOnError) /\ RecordsFailure)
          => \/ pc' = "loop" /\ i' = i + 1
             \/ pc' = "delaying" /\ i' = i /\ i < WorkItemCount - 1 ]_vars

C11_Witness ==
    /\ Truthy(config.continueOnError)
    /\ Len(results) >= 1 /\ ~results[1].success
    /\ \E p \in 1..Len(log) : log[p].ev = "send" /\ log[p].idx = 1

\* the validation of the recipients file of the running call
FileValidation == readRecipientsFile(io.access[1], io.read[1])

\* C12: a recipients file with at least one valid and at least one invalid
\* address has its invalid addresses skipped and the message sent to every
\* valid address.
C12_InvalidSkippedValidSent ==
    (/\ entry = "file" /\ Returned /\ io.read # << >>
     /\ Len(FileValidation.validAddresses) >= 1
     /\ Len(FileValidation.invalidAddresses) >= 1)
    => \A k \in 1..Len(FileValidation.validAddresses) :
          \E p \in 1..Len(log) :
             /\ log[p].ev = "send"
             /\ log[p].to = FileValidation.validAddresses[k]

\* the descriptive texts an error of a work item can have
ErrorTexts ==
    { ErrorText(t) : t \in ThrownValues \cup { SubstringTypeError } }

\* C13: every recorded result is well-formed: a success carries the
\* signature the send returned for that item, the explorer url derived from
\* it and no error; a failure carries the empty signature, the text of the
\* error and no explorer url.
C13_RecordsWellFormed ==
    \A k \in 1..Len(results) :
       IF results[k].success
       THEN /\ results[k].signature # NoSignature
            /\ \E p \in 1..Len(log) :
                  /\ log[p].ev = "settled" /\ log[p].idx = k - 1
                  /\ log[p].kind = "confirmed"
                  /\ results[k].signature
                        = SignatureOf(log[p].to, log[p].memo)
            /\ results[k].explorerUrl
                  = getExplorerUrl(results[k].signature, network)
            /\ results[k].explorerUrl # UndefinedText
            /\ results[k].error = Undefined
       ELSE /\ results[k].signature = NoSignature
            /\ results[k].error # Undefined
            /\ results[k].error \in ErrorTexts
            /\ results[k].explorerUrl = UndefinedText

C13_Witness ==
    /\ Returned /\ Len(Outcome.results) = 3
    /\ Outcome.results[1].success
    /\ ~Outcome.results[2].success /\ Outcome.results[2].error = UnknownError
    /\ ~Outcome.results[3].success /\ Outcome.results[3].error # UnknownError

\* C14: the result sequence is append-only: no step removes or changes a
\* recorded result, whatever fails later, and the step that returns hands
\* out the recorded sequence unchanged.
C14_ResultsAppendOnly ==
    [][ /\ Len(results') >= Len(results)
        /\ \A k \in 1..Len(results) : results'[k] = results[k]
        /\ (pc = "summary" /\ pc' = "done") => ret'[1].results = results ]_vars

C14_Witness ==
    /\ Returned /\ Len(Outcome.results) = 3
    /\ Outcome.results[1].success /\ ~Outcome.results[2].success
    /\ Outcome.results = results
    /\ Outcome.totalSent = 2

\* the fold of the summary: how many results have the given success flag
RECURSIVE CountResults(_, _)
CountResults(rs, flag) ==
    IF rs = << >> THEN 0
    ELSE (IF Head(rs).success = flag THEN 1 ELSE 0)
            + CountResults(Tail(rs), flag)

\* C15: at return totalSent is the number of returned results with
\* success = true and totalFailed the number with success = false.
C15_CountersAreTheFold ==
    Returned =>
       /\ Outcome.totalSent = CountResults(Outcome.results, TRUE)
       /\ Outcome.totalFailed = CountResults(Outcome.results, FALSE)

C15_Witness ==
    /\ Returned /\ Len(Outcome.results) = 3
    /\ Outcome.totalSent = 1 /\ Outcome.totalFailed = 2
    /\ ~Outcome.results[1].success /\ Outcome.results[2].success

\* C16: a dispatch over an empty work list attempts no send and no delay
\* and returns totalSent = 0, totalFailed = 0, results = [] and
\* overallSuccess = true.
C16_EmptyListSucceeds ==
    (entry \in { "bulk", "memo" } /\ ~config.recipientsNull
        /\ WorkItemCount = 0)
    => /\ log = << >>
       /\ pc \notin { "sending", "delaying", "thrown" }
       /\ Returned =>
             Outcome = [ totalSent |-> 0, totalFailed |-> 0,
                         results |-> << >>, overallSuccess |-> TRUE ]

C16_Witness ==
    /\ Returned /\ entry = "memo"
    /\ config.messagesGiven /\ config.messages = << >>
    /\ Outcome.overallSuccess /\ Outcome.results = << >>

Resolved == pc = "resolved"
Transaction == ret[1]

\* C17: sendMessage and sendMemoOnly never throw: a failure of any stage
\* is returned as success = false with the empty signature, the error text
\* and no explorer url; a confirmation is returned as success = true with
\* the signature and its explorer url.
C17_SingleOperationNeverThrows ==
    entry \in { "single", "singleMemo" } =>
       /\ pc # "thrown"
       /\ Resolved =>
             IF log[Len(log)].kind = "confirmed"
             THEN /\ Transaction.success
                  /\ Transaction.signature
                        = SignatureOf(log[Len(log)].to, log[Len(log)].memo)
                  /\ Transaction.signature # NoSignature
                  /\ Transaction.explorerUrl
                        = getExplorerUrl(Transaction.signature, network)
                  /\ Transaction.error = Undefined
             ELSE /\ ~Transaction.success
                  /\ Transaction.signature = NoSignature
                  /\ Transaction.error # Undefined
                  /\ Transaction.explorerUrl = UndefinedText

C17_Witness ==
    /\ Resolved /\ entry = "single"
    /\ Len(log) = 1 /\ log[1].ev = "blockhash" /\ log[1].kind = "rejected"
    /\ ~Transaction.success /\ Transaction.error = UnknownError

Validated == pc = "validated"
Validation == ret[1]
\* the file as readFile read it
FileRead == io.read[1]
FileWasRead == io.read # << >> /\ FileRead.readOk
Content == FileRead.content

\* the positions where a line of the file starts
LineStarts == { 1 } \cup { j + 1 : j \in { h \in 1..Len(Content) :
                                              Content[h] = "\n" } }
\* the position where the line starting at s ends
LineEnd(s) ==
    IF \E j \in s..Len(Content) : Content[j] = "\n"
    THEN (CHOOSE j \in s..Len(Content) :
             Content[j] = "\n" /\ \A h \in s..(j - 1) : Content[h] # "\n") - 1
    ELSE Len(Content)
\* the positions of the line that hold something other than white space
Ink(s) == { j \in s..LineEnd(s) : Content[j] \notin Whitespace }
FirstInk(s) == CHOOSE j \in Ink(s) : \A h \in Ink(s) : j <= h
LastInk(s) == CHOOSE j \in Ink(s) : \A h \in Ink(s) : h <= j
KeptStarts == { s \in LineStarts : Ink(s) # { } /\ Content[FirstInk(s)] # "#" }
KthKept(k) ==
    CHOOSE s \in KeptStarts : Cardinality({ t \in KeptStarts : t < s }) = k - 1

\* C18: the addresses readRecipientsFile returns for a file it could read
\* are the lines of the file, split at line feeds and trimmed, that are
\* neither empty nor start with '#', in file order; a file it could not
\* read gives no addresses.
C18_AddressesAreKeptLines ==
    (Validated /\ entry = "read") =>
        IF FileWasRead
        THEN /\ Len(Validation.addresses) = Cardinality(KeptStarts)
             /\ \A k \in 1..Len(Validation.addresses) :
                   Validation.addresses[k]
                      = SubSeq(Content, FirstInk(KthKept(k)),
                               LastInk(KthKept(k)))
        ELSE Validation.addresses = << >>

C18_Witness ==
    /\ Validated /\ entry = "read" /\ FileWasRead
    /\ Cardinality(LineStarts) = 5
    /\ \E s \in LineStarts : Ink(s) # { } /\ Content[FirstInk(s)] = "#"
    /\ \E s \in LineStarts : Ink(s) = { }
    /\ \E s \in LineStarts : Ink(s) # { } /\ Content[LineEnd(s)] \in Whitespace
    /\ Validation.addresses = << Addr1, Addr0 >>

\* the run is past the point where it takes its sender keypair
KeypairSettled == pc \notin { "call", "countdown" }
NoWalletConfigured ==
    ~Configured(config.privateKey) /\ ~Configured(config.walletPath)

\* C19: in the default example and in the CLI message modes alike, a run
\* with neither a private key nor a wallet path configured goes on with a
\* newly generated keypair and does not fail.
C19_GeneratesWhenNoneConfigured ==
    (entry \in { "example", "cli" } /\ KeypairSettled /\ NoWalletConfigured)
        => /\ pc # "cliError"
           /\ ret # << >>
           /\ ret[1].source = "generated"

SendCount == Cardinality({ p \in 1..Len(log) : log[p].ev = "send" })

\* C20 as stated: a returned bulk dispatch run has made as many send
\* invocations as it returns results, and no more than it has input items.
C20_SendsEqualResults ==
    (Returned /\ entry \in { "bulk", "memo", "file" })
    => /\ SendCount = Len(Outcome.results)
       /\ SendCount <= WorkItemCount

\* C20, amended: the send invocations of a bulk dispatch run go through
\* the work items in strictly increasing order, so no item is sent twice;
\* a returned run has made no more send invocations than it returns
\* results, and returns no more results than it has input items; the two
\* numbers are equal when every recorded item could be handed to the
\* single-operation client.
C20_AtMostOnceNoRetry ==
    entry \in { "bulk", "memo", "file" } =>
       /\ \A p \in 1..Len(log) : \A q \in (p + 1)..Len(log) :
             (log[p].ev = "send" /\ log[q].ev = "send")
                => log[p].idx < log[q].idx
       /\ \A p \in 1..Len(log) :
             log[p].ev = "send" => log[p].idx < WorkItemCount
       /\ Returned =>
             /\ SendCount <= Len(Outcome.results)
             /\ Len(Outcome.results) <= WorkItemCount
             /\ (\A k \in 0..(Len(Outcome.results) - 1) : Sendable(k))
                   => SendCount = Len(Outcome.results)

C20_Witness ==
    /\ Returned /\ entry = "memo"
    /\ WorkItemCount = 3 /\ ~Sendable(1)
    /\ Len(Outcome.results) = 3
    /\ SendCount = 2
    /\ SendAttempted(0) /\ SendAttempted(2)

FailedEvent(e) == Processed(e) /\ e.kind \in { "rejected", "throws" }

\* C21: with continueOnError false or absent, the event of the failing
\* item is the last event of the run: no delay starts and no send is
\* invoked after it, and the run is at its summary or has returned.
C21_EarlyStopImmediate ==
    (entry \in { "bulk", "memo", "file" } /\ ~Truthy(config.continueOnError))
    => \A p \in 1..Len(log) :
          FailedEvent(log[p]) =>
             /\ p = Len(log)
             /\ pc \in { "summary", "done" }

C21_Witness ==
    /\ Returned /\ entry = "bulk"
    /\ ~Truthy(config.continueOnError)
    /\ TruthyNum(config.delayBetweenTx)
    /\ WorkItemCount = 3
    /\ Len(Outcome.results) = 2
    /\ \E p \in 1..Len(log) : log[p].ev = "elapsed"
    /\ FailedEvent(log[Len(log)]) /\ log[Len(log)].idx = 1

\* the outcome kinds of the processed items of the run, in order
ItemOutcomes ==
    LET ps == SelectSeq([p \in 1..Len(log) |-> log[p]], Processed)
    IN  [k \in 1..Len(ps) |-> ps[k].kind]

\* the indices after whose item a delay was started
DelayPlacement == { log[p].idx : p \in { q \in 1..Len(log) : log[q].ev = "delay" } }

RECURSIVE DispatchPolicy(_, _, _, _, _, _)
\* the dispatch policy as a function of the number of items n, the item
\* outcomes outs, the delay d and the flag c alone: acc is the outcome
\* after the first k items
DispatchPolicy(n, outs, d, c, k, acc) ==
    IF k >= n \/ k >= Len(outs)
    THEN [acc EXCEPT !.complete = (k >= n)]
    ELSE LET ok == outs[k + 1] = "confirmed"
             next == [acc EXCEPT
                        !.totalSent = IF ok THEN @ + 1 ELSE @,
                        !.totalFailed = IF ok THEN @ ELSE @ + 1,
                        !.flags = Append(@, ok),
                        !.delays =
                            IF outs[k + 1] # "throws" /\ d # UndefinedNum
                               /\ d # 0 /\ k < n - 1
                               /\ (ok \/ c = "true")
                            THEN @ \cup { k } ELSE @]
         IN  IF ~ok /\ c # "true"
             THEN [next EXCEPT !.complete = TRUE]
             ELSE DispatchPolicy(n, outs, d, c, k + 1, next)

PolicyOutcome ==
    DispatchPolicy(WorkItemCount, ItemOutcomes, config.delayBetweenTx,
                   config.continueOnError, 0,
                   [totalSent |-> 0, totalFailed |-> 0, flags |-> << >>,
                    delays |-> { }, complete |-> FALSE])

\* C22: a returned run of sendBulkMessages and a returned run of
\* sendBulkMemoOnly are both the one dispatch policy applied to the number
\* of items, the item outcomes, delayBetweenTx and continueOnError:
\* the same counters, overallSuccess, success flags and delay placement,
\* with an absent delay meaning none and an absent flag meaning stop.
C22_SameDispatchPolicy ==
    (Returned /\ entry \in { "bulk", "memo" }) =>
       /\ PolicyOutcome.complete
       /\ Len(PolicyOutcome.flags) = Len(ItemOutcomes)
       /\ Outcome.totalSent = PolicyOutcome.totalSent
       /\ Outcome.totalFailed = PolicyOutcome.totalFailed
       /\ Outcome.overallSuccess = (PolicyOutcome.totalFailed = 0)
       /\ [k \in 1..Len(Outcome.results) |-> Outcome.results[k].success]
             = PolicyOutcome.flags
       /\ DelayPlacement = PolicyOutcome.delays

C22_Witness ==
    /\ Returned /\ entry = "memo"
    /\ config.continueOnError = Undefined
    /\ config.delayBetweenTx = UndefinedNum
    /\ WorkItemCount = 3
    /\ ItemOutcomes = << "confirmed", "rejected" >>
    /\ Outcome.totalSent = 1 /\ Outcome.totalFailed = 1

\* the kept lines of the file, by position
KeptLine(s) == SubSeq(Content, FirstInk(s), LastInk(s))

\* the file as the call found it: by access, then by readFile
FileMissing == io.access = << FALSE >>
FileUnreadable == io.read # << >> /\ ~FileRead.readOk
FileWithoutAddresses ==
    /\ FileWasRead
    /\ KeptStarts = { }
FileFailsValidation ==
    /\ FileWasRead
    /\ \E s \in KeptStarts : ~isValidPublicKey(KeptLine(s))

\* C23: sendMessagesFromFile never throws, and for a recipients file that
\* is missing, unreadable, without addresses or with an invalid address it
\* invokes no send and returns totalSent = 0, totalFailed = 0, no results
\* and overallSuccess = false.
C23_FileFailureGivesZeroResult ==
    entry = "file" =>
       /\ pc # "thrown"
       /\ (FileMissing \/ FileUnreadable \/ FileWithoutAddresses
              \/ FileFailsValidation)
          => /\ pc \in { "accessed", "readDone", "done" }
             /\ \A p \in 1..Len(log) : log[p].ev # "send"
             /\ Returned =>
                   /\ Outcome.totalSent = 0
                   /\ Outcome.totalFailed = 0
                   /\ Outcome.results = << >>
                   /\ ~Outcome.overallSuccess

C23_Witness ==
    /\ entry = "file" /\ Returned
    /\ FileFailsValidation
    /\ \E s \in KeptStarts : isValidPublicKey(KeptLine(s))
    /\ Outcome.results = << >> /\ ~Outcome.overallSuccess

FileValidates ==
    /\ FileWasRead
    /\ KeptStarts # { }
    /\ \A s \in KeptStarts : isValidPublicKey(KeptLine(s))

\* the keys of the kept lines of the file, in file order
FileKeys ==
    [k \in 1..Cardinality(KeptStarts) |-> toPublicKey(KeptLine(KthKept(k)))]

\* the recipients a bulk run is about: the caller's list, or the file's
RunAddresses == IF entry = "file" THEN FileKeys ELSE config.recipientAddresses

SendEvents ==
    SelectSeq([p \in 1..Len(log) |-> log[p]], LAMBDA e : e.ev = "send")

RunPolicy ==
    DispatchPolicy(Len(RunAddresses), ItemOutcomes, config.delayBetweenTx,
                   config.continueOnError, 0,
                   [totalSent |-> 0, totalFailed |-> 0, flags |-> << >>,
                    delays |-> { }, complete |-> FALSE])

\* a run of the bulk loop over RunAddresses: its sends, records and result
BulkRunOver ==
    /\ \A k \in 1..Len(SendEvents) :
          /\ k <= Len(RunAddresses)
          /\ SendEvents[k].idx = k - 1
          /\ SendEvents[k].to = RunAddresses[k]
          /\ SendEvents[k].memo = config.message
    /\ Len(results) <= Len(ItemOutcomes)
    /\ \A k \in 1..Len(results) :
          /\ results[k].recipientAddress = toBase58(RunAddresses[k])
          /\ results[k].success = (ItemOutcomes[k] = "confirmed")
          /\ IF results[k].success
             THEN /\ results[k].signature
                       = SignatureOf(RunAddresses[k], config.message)
                  /\ results[k].explorerUrl
                       = getExplorerUrl(results[k].signature, network)
                  /\ results[k].error = Undefined
             ELSE /\ results[k].signature = NoSignature
                  /\ results[k].explorerUrl = UndefinedText
                  /\ results[k].error \in ErrorTexts
    /\ Returned =>
          /\ Outcome.results = results
          /\ Len(results) = Len(ItemOutcomes)
          /\ RunPolicy.complete
          /\ Outcome.totalSent = RunPolicy.totalSent
          /\ Outcome.totalFailed = RunPolicy.totalFailed
          /\ Outcome.overallSuccess = (RunPolicy.totalFailed = 0)
          /\ DelayPlacement = RunPolicy.delays

\* C24: for a file that validates, sendMessagesFromFile hands to
\* sendBulkMessages the keys of the file's kept lines in file order,
\* duplicates kept, with message, delayBetweenTx and continueOnError as the
\* caller gave them; and its run is the run of sendBulkMessages over those
\* keys: the same sends, records, counters and delays for the same send
\* outcomes.
C24_FileRunIsBulkRun ==
    /\ [][ (entry = "file" /\ pc = "readDone" /\ pc' = "delegated")
             => /\ FileValidates
                /\ config'.recipientAddresses = FileKeys
                /\ \A k \in 1..Len(FileKeys) :
                      toBase58(FileKeys[k]) = KeptLine(KthKept(k))
                /\ config'.message = config.message
                /\ config'.delayBetweenTx = config.delayBetweenTx
                /\ config'.continueOnError = config.continueOnError ]_vars
    /\ []( ( /\ entry \in { "bulk", "file" }
             /\ pc \notin { "call", "accessing", "accessed", "reading",
                          "readDone", "thrown" }
             /\ entry = "file" => FileValidates )
           => BulkRunOver )

C24_Witness ==
    /\ entry = "file" /\ Returned
    /\ FileValidates
    /\ FileKeys = << 0, 0 >>
    /\ Truthy(config.continueOnError)
    /\ Len(SendEvents) = 2
    /\ Outcome.totalSent = 1 /\ Outcome.totalFailed = 1

\* the outcome kinds run r received, in order
OutcomesOf(r) == log.outs[r]

PolicyOf(r) ==
    DispatchPolicy(Len(config[r].recipientAddresses), OutcomesOf(r),
                   config[r].delayBetweenTx, config[r].continueOnError, 0,
                   [totalSent |-> 0, totalFailed |-> 0, flags |-> << >>,
                    delays |-> { }, complete |-> FALSE])

\* a send of one run was started while the other run was in flight
Overlapped == log.overlapped

\* C25: whatever the interleaving of two runs on one sender, the result a
\* run returns is made of its own work items and the outcomes of its own
\* sends: its counters and flags are the dispatch policy applied to them,
\* and every record names the run's own recipient and, for a success, the
\* signature of the run's own message.
C25_RunsDoNotInterfere ==
    \A r \in Runs :
       pc[r] = "done" =>
          LET out == ret[r][1]
              own == config[r] IN
          /\ PolicyOf(r).complete
          /\ out.totalSent = PolicyOf(r).totalSent
          /\ out.totalFailed = PolicyOf(r).totalFailed
          /\ out.overallSuccess = (PolicyOf(r).totalFailed = 0)
          /\ Len(out.results) = Len(OutcomesOf(r))
          /\ \A k \in 1..Len(out.results) :
                /\ out.results[k].recipientAddress
                      = toBase58(own.recipientAddresses[k])
                /\ out.results[k].success = (OutcomesOf(r)[k] = "confirmed")
                /\ out.results[k].success =>
                      out.results[k].signature
                         = SignatureOf(own.recipientAddresses[k], own.message)

C25_Witness ==
    /\ pc = << "done", "done" >>
    /\ Overlapped
    /\ Len(ret[1][1].results) = 2 /\ Len(ret[2][1].results) = 2
    /\ ret[1][1].totalFailed = 1 /\ ret[2][1].totalFailed = 0

\* the kept lines of the file that are, and are not, valid addresses
ValidKept == { s \in KeptStarts : isValidPublicKey(KeptLine(s)) }
InvalidKept == KeptStarts \ ValidKept

\* C26: readRecipientsFile never throws; in the FileValidationResult it
\* returns, isValid holds exactly when there is a valid address and no
\* invalid one, and exactly when error is undefined; for a file that was
\* read the two lists hold the valid and the invalid kept lines.
C26_ValidationConsistent ==
    entry = "read" =>
       /\ pc # "thrown"
       /\ Validated =>
             /\ Validation.isValid
                  <=> (Len(Validation.validAddresses) > 0
                         /\ Len(Validation.invalidAddresses) = 0)
             /\ Validation.isValid <=> (Validation.error = UndefinedText)
             /\ Len(Validation.validAddresses)
                  = (IF FileWasRead THEN Cardinality(ValidKept) ELSE 0)
             /\ Len(Validation.invalidAddresses)
                  = (IF FileWasRead THEN Cardinality(InvalidKept) ELSE 0)

C26_Witness ==
    /\ entry = "read" /\ Validated
    /\ FileWasRead
    /\ Cardinality(ValidKept) = 1 /\ Cardinality(InvalidKept) = 1
    /\ ~Validation.isValid
    /\ Validation.error # UndefinedText

\* the number of work items the run has finished with
ProcessedCount == Cardinality({ p \in 1..Len(log) : Processed(log[p]) })

\* C27: the work list of sendBulkMemoOnly is messages when it is given,
\* the empty list included, and the single config.message only when
\* messages is absent: every send carries the entry of that list at its
\* index, the items are taken in list order, and a returned run has gone
\* through the whole list unless it stopped at a failure.
C27_MessageIsOnlyFallback ==
    entry = "memo" =>
       LET list == IF config.messagesGiven THEN config.messages
                   ELSE << config.message >> IN
       /\ \A p \in 1..Len(log) :
             log[p].ev = "send" =>
                /\ log[p].idx < Len(list)
                /\ log[p].memo = list[log[p].idx + 1]
                /\ log[p].idx = Cardinality({ q \in 1..(p - 1) :
                                                Processed(log[q]) })
       /\ Returned =>
             /\ ProcessedCount = Len(Outcome.results)
             /\ \/ ProcessedCount = Len(list)
                \/ /\ ProcessedCount < Len(list)
                   /\ ~Truthy(config.continueOnError)
                   /\ ~Outcome.results[ProcessedCount].success
             /\ ~config.messagesGiven => ProcessedCount = 1
             /\ (config.messagesGiven /\ config.messages = << >>)
                   => (SendCount = 0 /\ Outcome.results = << >>)

C27_Witness ==
    /\ entry = "memo" /\ Returned
    /\ config.messagesGiven
    /\ config.messages = << "hello", "hello" >>
    /\ config.message = "gm"
    /\ SendCount = 2
    /\ \A p \in 1..Len(log) : log[p].ev = "send" => log[p].memo = "hello"

CliHasInvalidRecipient ==
    \E k \in 1..Len(config.recipients) :
        ~isValidPublicKey(config.recipients[k])

\* C28: in the bulk-recipient mode of the command line, a run that starts
\* a send has found every entry of --recipients a valid address and sends
\* to their keys; with an invalid entry, wherever it stands in the list,
\* sendBulkMessages is not called and nothing is sent or recorded.
C28_RecipientsValidatedFirst ==
    entry = "cliBulk" =>
       /\ (pc \notin { "call", "cliError", "cliReturned" })
             => /\ ~CliHasInvalidRecipient
                /\ config.recipientAddresses
                     = [k \in 1..Len(config.recipients) |->
                           Value58(config.recipients[k])]
       /\ CliHasInvalidRecipient
             => /\ pc \in { "call", "cliError", "cliReturned" }
                /\ log = << >>
                /\ results = << >>

C28_Witness ==
    /\ entry = "cliBulk" /\ pc = "cliReturned"
    /\ Len(config.recipients) = 3
    /\ isValidPublicKey(config.recipients[1])
    /\ ~isValidPublicKey(config.recipients[2])
    /\ isValidPublicKey(config.recipients[3])
    /\ ret[1].printed = "Invalid recipient address"
    /\ ret[1].address = config.recipients[2]
    /\ log = << >>
====
